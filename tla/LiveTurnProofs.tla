---------------------------- MODULE LiveTurnProofs ----------------------------
(***************************************************************************)
(* Theorems about LiveTurn, for every value of its constants.              *)
(*                                                                         *)
(* A handler maps Begun to a working t through a few elementary steps: the *)
(* message is begun, a block is put, a block grows by a delta.  Each keeps *)
(* t Good: its blocks are sound, and a browser that missed nothing, or got *)
(* the whole message again, mirrors them (Mirrors).  The handlers are then *)
(* told by what they put for the execution they are about and that they    *)
(* leave the Others alone, and the steps by what that does to FollowedSound*)
(* and AnonymousSound.                                                     *)
(*                                                                         *)
(* That the history reads as the turn was shown is proved of Readings: a   *)
(* reading is a set of places with what is marked there, and each of the   *)
(* three a turn has (of the live message, of the history and of what is    *)
(* being said) is in one order, that of the numbers of its marks.  So two  *)
(* readings of the same marks are told alike.  The lemmas about a step are *)
(* stated of any blocks and messages; each handler's lemma, *Reads, applies*)
(* them to what the handler does.                                          *)
(***************************************************************************)
EXTENDS LiveTurn, FiniteSetTheorems, SequenceTheorems,
        WellFoundedInduction, TLAPS

-------------------------------------------------------------------------------
(* Identities of tools and blocks *)

LEMMA ToolIdsDiffer ==
    ASSUME NEW m \in Nat, NEW n \in Nat
    PROVE  /\ ToolId(m) \in ToolIds /\ AnonymousId(m) \in ToolIds
           /\ ToolId(m) # None /\ AnonymousId(m) # None
           /\ ToolId(m) # AnonymousId(n)
           /\ ToolId(m) = ToolId(n) => m = n
           /\ AnonymousId(m) = AnonymousId(n) => m = n
  <1>1. ToolId(m) \in ToolIds /\ AnonymousId(m) \in ToolIds
    BY DEF ToolIds, ToolId, AnonymousId
  <1>2. /\ ToolId(m) # AnonymousId(n)
        /\ ToolId(m) = ToolId(n) => m = n
        /\ AnonymousId(m) = AnonymousId(n) => m = n
    BY DEF ToolId, AnonymousId
  <1> QED
    BY <1>1, <1>2, LiveTurnAssumption

(* The first of one number is that number. *)
LEMMA MinOfOne ==
    ASSUME NEW k \in Int
    PROVE  Min({k}) = k
  BY DEF Min

-------------------------------------------------------------------------------
(* Blocks put into a message *)

Matches(b, block) == b.id = block.id \/ SameToolBlock(b, block)

(* `result` is `blocks` with `block` at k, which may be the place behind. *)
PutAt(blocks, block, k, result) ==
    /\ k \in 1..(Len(blocks) + 1)
    /\ result \in Seq(Blocks) /\ DOMAIN result = DOMAIN blocks \union {k}
    /\ result[k] = block
    /\ \A i \in DOMAIN blocks \ {k} : result[i] = blocks[i]

LEMMA ReplacedTyped ==
    ASSUME NEW blocks \in Seq(Blocks), NEW block \in Blocks, NEW k
    PROVE  /\ [blocks EXCEPT ![k] = block] \in Seq(Blocks)
           /\ DOMAIN [blocks EXCEPT ![k] = block] = DOMAIN blocks
           /\ k \in DOMAIN blocks => [blocks EXCEPT ![k] = block][k] = block
           /\ \A i \in DOMAIN blocks \ {k} : [blocks EXCEPT ![k] = block][i] = blocks[i]
  <1>1. [blocks EXCEPT ![k] = block] \in [1..Len(blocks) -> Blocks]
    <2>1. blocks \in [1..Len(blocks) -> Blocks]
      BY LenProperties
    <2> QED
      BY <2>1
  <1>2. Len(blocks) \in Nat
    OBVIOUS
  <1> QED
    BY <1>1, <1>2

LEMMA UpsertTyped ==
    ASSUME NEW blocks \in Seq(Blocks), NEW block \in Blocks
    PROVE  Upserted(blocks, block) \in Seq(Blocks)
  <1>1. Append(blocks, block) \in Seq(Blocks)
    OBVIOUS
  <1>2. \A k : [blocks EXCEPT ![k] = block] \in Seq(Blocks)
    BY ReplacedTyped
  <1> QED
    BY <1>1, <1>2 DEF Upserted, Placed

(* If at most one block matches, it is the one that is replaced. *)
LEMMA UpsertAt ==
    ASSUME NEW blocks \in Seq(Blocks), NEW block \in Blocks,
           \A i, j \in DOMAIN blocks :
             Matches(blocks[i], block) /\ Matches(blocks[j], block) => i = j
    PROVE  \E k \in Nat :
             /\ PutAt(blocks, block, k, Upserted(blocks, block))
             /\ k \in DOMAIN blocks => Matches(blocks[k], block)
             /\ \A i \in DOMAIN blocks : Matches(blocks[i], block) => i = k
  <1> DEFINE found == {i \in DOMAIN blocks : Matches(blocks[i], block)}
  <1>1. Upserted(blocks, block) = Placed(blocks, found, block)
    BY DEF Upserted, Matches
  <1>2. CASE found = {}
    <2>1. Upserted(blocks, block) = Append(blocks, block)
      BY <1>1, <1>2 DEF Placed
    <2>2. PutAt(blocks, block, Len(blocks) + 1, Append(blocks, block))
      BY DEF PutAt
    <2>3. Len(blocks) + 1 \in Nat /\ Len(blocks) + 1 \notin DOMAIN blocks
      OBVIOUS
    <2> QED
      BY <1>2, <2>1, <2>2, <2>3
  <1>3. CASE found # {}
    <2>1. PICK k \in DOMAIN blocks : Matches(blocks[k], block)
      BY <1>3
    <2>2. k \in Int /\ k \in 1..Len(blocks) /\ found = {k}
      BY <2>1
    <2>3. Upserted(blocks, block) = [blocks EXCEPT ![k] = block]
      BY <1>1, <1>3, <2>2, MinOfOne DEF Placed
    <2>4. PutAt(blocks, block, k, Upserted(blocks, block))
      <3>1. k \in 1..(Len(blocks) + 1) /\ DOMAIN blocks = DOMAIN blocks \union {k}
        <4>1. Len(blocks) \in Nat
          OBVIOUS
        <4>2. \A n \in Nat : \A j \in 1..n : j \in 1..(n + 1)
          OBVIOUS
        <4> QED
          BY <2>1, <2>2, <4>1, <4>2
      <3> QED
        BY <2>3, <3>1, ReplacedTyped DEF PutAt
    <2> QED
      BY <2>1, <2>2, <2>4
  <1> QED
    BY <1>2, <1>3

-------------------------------------------------------------------------------
(* Projections, and what handlers make of them *)

Emissions == UNION {[T -> 0..MaxChunks] : T \in SUBSET ToolIds}
Copies == [id : Nat, blocks : Seq(Blocks)]
Keys == [TextLike -> BlockIds \union {None}]

Projections ==
    [id : Nat, open : BOOLEAN, blocks : Seq(Blocks), key : Keys, emitted : Emissions,
     anchor : ToolIds \union {None}, anon : ToolIds \union {None},
     ambiguous : BOOLEAN, made : Nat]

Workings ==
    [id : Nat, open : BOOLEAN, blocks : Seq(Blocks), key : Keys, emitted : Emissions,
     anchor : ToolIds \union {None}, anon : ToolIds \union {None},
     ambiguous : BOOLEAN, made : Nat,
     got : ToolIds \union {None}, shown : Copies, sent : {"nothing", "part", "whole"}]

(* What a browser that missed nothing makes of the events emitted so far. *)
Mirrors(t) ==
    t.open /\ (~missed \/ t.sent = "whole") =>
        t.shown = [id |-> t.id, blocks |-> InTheBrowser(t)]

Unsent(t) ==
    t.sent = "nothing" =>
        t.open = live.open /\ t.blocks = live.blocks /\ t.emitted = live.emitted

Good(t, calls) ==
    /\ t \in Workings /\ t.id = live.id
    /\ BlocksSound(t, calls)
    /\ ~t.open => t.blocks = <<>>
    /\ Mirrors(t) /\ Unsent(t)

(* What putting a block leaves alone *)
Unmoved(t, w) ==
    /\ w.id = t.id /\ w.key = t.key /\ w.anchor = t.anchor /\ w.anon = t.anon
    /\ w.ambiguous = t.ambiguous /\ w.made = t.made /\ w.got = t.got

LEMMA LiveTyped ==
    ASSUME TypeOK, BlocksSound(live, tools)
    PROVE  live \in Projections /\ seen \in Copies
  <1> DEFINE E == UNION {[T -> 0..MaxChunks] : T \in SUBSET {b.tool : b \in ToSet(live.blocks)}}
  <1>1. live \in [id : Nat, open : BOOLEAN, blocks : Seq(Blocks), key : Keys, emitted : E,
                 anchor : ToolIds \union {None}, anon : ToolIds \union {None},
                 ambiguous : BOOLEAN, made : Nat]
    BY DEF TypeOK, Keys
  <1>2. \A tool \in DOMAIN live.emitted : Results(live.blocks, tool) # {}
    BY DEF BlocksSound
  <1>3. DOMAIN live.emitted \subseteq ToolIds
    <2>1. ASSUME NEW tool \in DOMAIN live.emitted
          PROVE  tool \in ToolIds
      <3>1. PICK i \in DOMAIN live.blocks :
                live.blocks[i].type = "tool_result" /\ live.blocks[i].tool = tool
        BY <1>2, <2>1 DEF Results
      <3> QED
        BY <3>1 DEF BlocksSound, WellFormed, TextLike
    <2> QED
      BY <2>1
  <1>4. live.emitted \in Emissions
    <2>1. live.emitted \in E
      BY <1>1
    <2>2. live.emitted \in [DOMAIN live.emitted -> 0..MaxChunks]
      BY <2>1
    <2> QED
      BY <1>3, <2>2 DEF Emissions
  <1>5. live \in Projections
    <2> HIDE DEF E
    <2> QED
      BY <1>1, <1>4 DEF Projections
  <1> QED
    BY <1>5 DEF TypeOK, Copies

(* A handler's result, without what only the handler knows, is a projection. *)
LEMMA KeptTyped ==
    ASSUME live \in Projections, NEW t \in Workings
    PROVE  LET p == Restrict(t, DOMAIN live)
           IN  /\ p \in Projections
               /\ p.id = t.id /\ p.open = t.open /\ p.blocks = t.blocks /\ p.key = t.key
               /\ p.emitted = t.emitted /\ p.anchor = t.anchor /\ p.anon = t.anon
               /\ p.ambiguous = t.ambiguous /\ p.made = t.made
  BY DEF Projections, Workings, Restrict

LEMMA BegunTyped ==
    ASSUME live \in Projections, seen \in Copies
    PROVE  Begun \in Workings
  BY DEF Begun, Projections, Workings

(* Folding any event gives a copy. *)
LEMMA FoldedTyped ==
    ASSUME NEW m \in Copies, NEW id \in Nat
    PROVE  /\ \A blocks \in Seq(Blocks) :
                Folded(m, [type |-> "message_upsert", id |-> id, blocks |-> blocks])
                  = [id |-> id, blocks |-> blocks]
           /\ \A block \in Blocks :
                LET f == Folded(m, [type |-> "message_block_upsert", id |-> id, block |-> block])
                IN  f \in Copies /\ (m.id = id => f = [id |-> id, blocks |-> Upserted(m.blocks, block)])
  <1> DEFINE n == IF m.id = id THEN m ELSE [id |-> id, blocks |-> <<>>]
  <1>1. n \in Copies /\ n.id = id /\ (m.id = id => n = m)
    BY DEF Copies
  <1>2. ASSUME NEW blocks \in Seq(Blocks)
        PROVE  Folded(m, [type |-> "message_upsert", id |-> id, blocks |-> blocks])
                  = [id |-> id, blocks |-> blocks]
    <2>1. Folded(m, [type |-> "message_upsert", id |-> id, blocks |-> blocks])
            = [n EXCEPT !.blocks = blocks]
      BY DEF Folded
    <2> QED
      BY <1>1, <2>1 DEF Copies
  <1>3. ASSUME NEW block \in Blocks
        PROVE  LET f == Folded(m, [type |-> "message_block_upsert", id |-> id, block |-> block])
               IN  f \in Copies /\ (m.id = id => f = [id |-> id, blocks |-> Upserted(m.blocks, block)])
    <2>1. Folded(m, [type |-> "message_block_upsert", id |-> id, block |-> block])
            = [n EXCEPT !.blocks = Upserted(n.blocks, block)]
      BY DEF Folded
    <2>2. Upserted(n.blocks, block) \in Seq(Blocks)
      BY <1>1, UpsertTyped DEF Copies
    <2> QED
      BY <1>1, <2>1, <2>2 DEF Copies
  <1> QED
    BY <1>2, <1>3

LEMMA EnsureKeeps ==
    ASSUME NEW calls, NEW t, Good(t, calls)
    PROVE  LET w == EnsureAssistantMessage(t)
           IN  Good(w, calls) /\ w.open /\ Unmoved(t, w) /\ w.blocks = t.blocks /\ w.emitted = t.emitted
  <1>1. CASE t.open
    <2>1. EnsureAssistantMessage(t) = t
      BY <1>1 DEF EnsureAssistantMessage
    <2> QED
      BY <1>1, <2>1 DEF Unmoved
  <1>2. CASE ~t.open
    <2> DEFINE w == [t EXCEPT !.open = TRUE, !.shown = [id |-> t.id, blocks |-> <<>>],
                              !.sent = "whole"]
    <2>1. t \in Workings /\ t.blocks = <<>>
      BY <1>2 DEF Good
    <2>2. EnsureAssistantMessage(t) = w
      <3>1. Folded(t.shown, [type |-> "message_upsert", id |-> t.id, blocks |-> <<>>])
              = [id |-> t.id, blocks |-> <<>>]
        BY <2>1, FoldedTyped DEF Workings
      <3> QED
        BY <1>2, <2>1, <3>1 DEF EnsureAssistantMessage, Emit, Workings
    <2>3. w \in Workings
      BY <2>1 DEF Workings, Copies
    <2>4. BlocksSound(w, calls)
      BY <2>1, <2>3 DEF Good, BlocksSound, WellFormed, Tells, ToolBlockId, Workings
    <2>5. Mirrors(w)
      BY <2>1, <2>3 DEF Mirrors, InTheBrowser, Workings
    <2> QED
      BY <2>1, <2>2, <2>3, <2>4, <2>5 DEF Good, Unsent, Unmoved, Workings
  <1> QED
    BY <1>1, <1>2

(* Of blocks that are well formed, the id tells the type and the tool. *)
LEMMA IdTells ==
    ASSUME NEW p, NEW calls, NEW b \in Blocks, NEW c \in Blocks,
           WellFormed(p, calls, b), WellFormed(p, calls, c)
    PROVE  /\ b.id = c.id => /\ b.type = c.type
                             /\ b.type \notin TextLike => b.tool = c.tool
           /\ Matches(b, c) <=> b.id = c.id
  <1>1. /\ b.type \in TextLike => b.id[2] = b.type
        /\ c.type \in TextLike => c.id[2] = c.type
    BY DEF WellFormed
  <1>2. ASSUME NEW d \in Blocks, WellFormed(p, calls, d), d.type \notin TextLike
        PROVE  /\ d.type \in {"tool_call", "tool_result"}
               /\ d.id[2] = (IF d.type = "tool_call" THEN "call" ELSE "result")
               /\ d.id[3] = d.tool
               /\ d.id = <<p.id, IF d.type = "tool_call" THEN "call" ELSE "result", d.tool>>
    <2>1. d.id = <<p.id, IF d.type = "tool_call" THEN "call" ELSE "result", d.tool>>
      BY <1>2 DEF WellFormed, ToolBlockId
    <2>2. d.type \in {"tool_call", "tool_result"}
      BY <1>2 DEF Blocks
    <2> QED
      BY <2>1, <2>2
  <1>3. b.id = c.id => b.type = c.type /\ (b.type \notin TextLike => b.tool = c.tool)
    BY <1>1, <1>2 DEF TextLike
  <1>4. SameToolBlock(b, c) => b.id = c.id
    BY <1>2 DEF SameToolBlock
  <1> QED
    BY <1>3, <1>4 DEF Matches

(* The browser's copy of a block differs in what was streamed of a result. *)
LEMMA StreamedAlike ==
    ASSUME NEW em, NEW b \in Blocks
    PROVE  LET s == Streamed(em, b)
           IN  s.id = b.id /\ s.type = b.type /\ s.tool = b.tool
  BY DEF Streamed, Blocks

(* A block put into a good projection, with what is known of the emitted     *)
(* results of its tool. (upsertBlock)                                        *)
PutOf(t, block, em) == [UpsertBlock(t, block) EXCEPT !.emitted = em]

Puttable(t, calls, block, em) ==
    /\ t.open
    /\ block \in Blocks /\ WellFormed(t, calls, block)
    /\ em \in Emissions
    /\ \A i \in DOMAIN t.blocks :
        /\ OfTools(t.blocks[i], block) =>
             (t.blocks[i].of = block.of <=> t.blocks[i].tool = block.tool)
        /\ t.blocks[i].id # block.id =>
             Streamed(em, t.blocks[i]) = Streamed(t.emitted, t.blocks[i])
    /\ Streamed(em, block) = block
    /\ \A tool \in DOMAIN em :
         tool \in DOMAIN t.emitted \/ (block.type = "tool_result" /\ tool = block.tool)

PutIn(t, block, w) ==
    \E k \in Nat :
        /\ PutAt(t.blocks, block, k, w.blocks)
        /\ k \in DOMAIN t.blocks => t.blocks[k].id = block.id
        /\ \A i \in DOMAIN t.blocks : t.blocks[i].id = block.id => i = k

LEMMA UpsertFields ==
    ASSUME NEW t \in Workings, NEW block \in Blocks, NEW em \in Emissions
    PROVE  LET w == PutOf(t, block, em)
           IN  /\ w \in Workings
               /\ Unmoved(t, w) /\ w.open = t.open
               /\ w.blocks = Upserted(t.blocks, block) /\ w.emitted = em
               /\ w.sent = (IF t.sent = "whole" THEN "whole" ELSE "part")
               /\ t.shown.id = t.id =>
                    w.shown = [id |-> t.id, blocks |-> Upserted(t.shown.blocks, block)]
  <1> DEFINE event == [type |-> "message_block_upsert", id |-> t.id, block |-> block]
             f == Folded(t.shown, event)
  <1>1. f \in Copies
    BY FoldedTyped DEF Workings
  <1>2. t.shown.id = t.id => f = [id |-> t.id, blocks |-> Upserted(t.shown.blocks, block)]
    BY FoldedTyped DEF Workings
  <1>3. Upserted(t.blocks, block) \in Seq(Blocks)
    BY UpsertTyped DEF Workings
  <1>4. PutOf(t, block, em) = [t EXCEPT !.blocks = Upserted(t.blocks, block), !.emitted = em,
                                        !.shown = f,
                                        !.sent = IF t.sent = "whole" THEN "whole" ELSE "part"]
    BY DEF PutOf, UpsertBlock, Emit, Workings
  <1> QED
    <2> DEFINE sent == IF t.sent = "whole" THEN "whole" ELSE "part"
               w == [t EXCEPT !.blocks = Upserted(t.blocks, block), !.emitted = em,
                              !.shown = f, !.sent = sent]
    <2>1. sent \in {"nothing", "part", "whole"}
      OBVIOUS
    <2> HIDE DEF f, sent
    <2>2. /\ w.blocks = Upserted(t.blocks, block) /\ w.emitted = em /\ w.shown = f
          /\ w.sent = sent /\ w.open = t.open
      BY DEF Workings
    <2>3. w \in Workings
      BY <1>1, <1>3, <2>1 DEF Workings
    <2>4. Unmoved(t, w)
      BY DEF Unmoved, Workings
    <2> HIDE DEF w
    <2>5. PutOf(t, block, em) = w
      BY <1>4 DEF w, sent
    <2> QED
      BY <1>2, <2>2, <2>3, <2>4, <2>5 DEF sent

LEMMA PutKeeps ==
    ASSUME NEW calls, NEW t, Good(t, calls), NEW block, NEW em, Puttable(t, calls, block, em)
    PROVE  LET w == PutOf(t, block, em)
           IN  /\ Good(w, calls) /\ w.open /\ w.sent # "nothing"
               /\ Unmoved(t, w) /\ w.emitted = em
               /\ PutIn(t, block, w)
  <1> DEFINE w == PutOf(t, block, em)
  <1>1. /\ t \in Workings /\ t.blocks \in Seq(Blocks) /\ t.open
        /\ block \in Blocks /\ em \in Emissions /\ WellFormed(t, calls, block)
        /\ \A i \in DOMAIN t.blocks : t.blocks[i] \in Blocks /\ WellFormed(t, calls, t.blocks[i])
    BY DEF Good, Workings, Puttable, BlocksSound
  <1>2. /\ w \in Workings
        /\ Unmoved(t, w) /\ w.open = t.open
        /\ w.blocks = Upserted(t.blocks, block) /\ w.emitted = em
        /\ w.sent = (IF t.sent = "whole" THEN "whole" ELSE "part")
        /\ t.shown.id = t.id =>
             w.shown = [id |-> t.id, blocks |-> Upserted(t.shown.blocks, block)]
    <2>1. t \in Workings /\ block \in Blocks /\ em \in Emissions
      BY <1>1
    <2> QED
      BY <2>1, UpsertFields, Zenon
  <1> HIDE DEF w
  <1>3. w.id = t.id /\ w.open /\ w.made = t.made
    BY <1>1, <1>2 DEF Unmoved
  <1>4. \A i \in DOMAIN t.blocks : /\ Matches(t.blocks[i], block) <=> t.blocks[i].id = block.id
                                   /\ t.blocks[i].id = block.id => t.blocks[i].type = block.type
    BY <1>1, IdTells
  <1>5. PICK k \in Nat : /\ PutAt(t.blocks, block, k, w.blocks)
                         /\ k \in DOMAIN t.blocks => Matches(t.blocks[k], block)
                         /\ \A i \in DOMAIN t.blocks : Matches(t.blocks[i], block) => i = k
    <2>1. \A i, j \in DOMAIN t.blocks :
            Matches(t.blocks[i], block) /\ Matches(t.blocks[j], block) => i = j
      BY <1>4 DEF Good, BlocksSound
    <2> QED
      BY <1>1, <1>2, <2>1, UpsertAt
  <1>6. PutIn(t, block, w)
    BY <1>4, <1>5 DEF PutIn
  <1>7. BlocksSound(w, calls)
    <2>1. ASSUME NEW b
          PROVE  WellFormed(t, calls, b) => WellFormed(w, calls, b)
      BY <1>3 DEF WellFormed, Tells, ToolBlockId
    <2>2. \A i \in DOMAIN w.blocks : WellFormed(w, calls, w.blocks[i])
      BY <1>1, <1>5, <2>1 DEF PutAt
    <2>3. ASSUME NEW i \in DOMAIN w.blocks, NEW j \in DOMAIN w.blocks
          PROVE  /\ w.blocks[i].id = w.blocks[j].id => i = j
                 /\ OfTools(w.blocks[i], w.blocks[j]) =>
                      (w.blocks[i].of = w.blocks[j].of <=> w.blocks[i].tool = w.blocks[j].tool)
      <3>1. /\ i # k => i \in DOMAIN t.blocks /\ w.blocks[i] = t.blocks[i]
            /\ j # k => j \in DOMAIN t.blocks /\ w.blocks[j] = t.blocks[j]
            /\ w.blocks[k] = block
        BY <1>5 DEF PutAt
      <3>2. w.blocks[i].id = w.blocks[j].id => i = j
        BY <1>4, <1>5, <3>1 DEF Good, BlocksSound
      <3>3. CASE i # k /\ j # k
        BY <3>1, <3>2, <3>3 DEF Good, BlocksSound
      <3>4. CASE i = k /\ j = k
        BY <3>4
      <3>5. CASE i # k /\ j = k
        BY <3>1, <3>2, <3>5 DEF Puttable
      <3>6. CASE i = k /\ j # k
        BY <3>1, <3>2, <3>6 DEF Puttable, OfTools
      <3> QED
        BY <3>3, <3>4, <3>5, <3>6
    <2>4. ASSUME NEW tool \in DOMAIN w.emitted
          PROVE  Results(w.blocks, tool) # {}
      <3>1. CASE block.type = "tool_result" /\ tool = block.tool
        BY <1>5, <3>1 DEF Results, PutAt
      <3>2. CASE ~(block.type = "tool_result" /\ tool = block.tool)
        <4>1. tool \in DOMAIN t.emitted
          BY <1>2, <2>4, <3>2 DEF Puttable
        <4>2. PICK i \in DOMAIN t.blocks : /\ t.blocks[i].type = "tool_result"
                                           /\ t.blocks[i].tool = tool
          BY <4>1 DEF Good, BlocksSound, Results
        <4>3. i # k
          BY <1>1, <1>4, <1>5, <3>2, <4>2, IdTells DEF TextLike
        <4> QED
          BY <1>5, <4>2, <4>3 DEF Results, PutAt
      <3> QED
        BY <3>1, <3>2
    <2> QED
      BY <2>2, <2>3, <2>4 DEF BlocksSound
  <1>8. ASSUME ~missed \/ w.sent = "whole"
        PROVE  w.shown = [id |-> w.id, blocks |-> InTheBrowser(w)]
    <2> DEFINE shown == InTheBrowser(t)
    <2>1. t.shown = [id |-> t.id, blocks |-> shown]
      BY <1>1, <1>2, <1>8 DEF Good, Mirrors
    <2>2. shown \in Seq(Blocks)
      BY <1>1, <2>1 DEF Workings, Copies
    <2>3. w.shown = [id |-> t.id, blocks |-> Upserted(shown, block)]
      BY <1>2, <2>1
    <2>4. /\ DOMAIN shown = DOMAIN t.blocks
          /\ \A i \in DOMAIN t.blocks : shown[i] = Streamed(t.emitted, t.blocks[i])
      BY DEF InTheBrowser
    <2> HIDE DEF shown
    <2>5. \A i \in DOMAIN t.blocks : Matches(shown[i], block) <=> Matches(t.blocks[i], block)
      BY <1>1, <2>4, StreamedAlike DEF Matches, SameToolBlock
    <2>6. PICK l \in Nat : /\ PutAt(shown, block, l, Upserted(shown, block))
                           /\ l \in DOMAIN shown => Matches(shown[l], block)
                           /\ \A i \in DOMAIN shown : Matches(shown[i], block) => i = l
      <3>1. \A i, j \in DOMAIN shown :
              Matches(shown[i], block) /\ Matches(shown[j], block) => i = j
        BY <1>5, <2>4, <2>5
      <3> QED
        BY <1>1, <2>2, <3>1, UpsertAt
    <2>7. l = k
      <3>1. Len(shown) = Len(t.blocks) /\ Len(shown) \in Nat
        BY <1>1, <2>2, <2>4, LenProperties
      <3>2. l \in DOMAIN t.blocks \/ l = Len(t.blocks) + 1
        BY <1>1, <2>6, <3>1, LenProperties DEF PutAt
      <3>3. k \in DOMAIN t.blocks \/ k = Len(t.blocks) + 1
        BY <1>1, <1>5, <3>1, LenProperties DEF PutAt
      <3> QED
        BY <1>5, <2>4, <2>5, <2>6, <3>2, <3>3
    <2> DEFINE U == Upserted(shown, block)
    <2>8. /\ U = [i \in DOMAIN U |-> U[i]] /\ DOMAIN U = DOMAIN t.blocks \union {k}
          /\ U[k] = block /\ \A i \in DOMAIN t.blocks \ {k} : U[i] = shown[i]
      <3>1. PutAt(shown, block, k, U)
        BY <2>6, <2>7
      <3>2. U \in Seq(Blocks)
        BY <3>1 DEF PutAt
      <3>3. U \in [DOMAIN U -> Blocks]
        BY <3>2
      <3> QED
        BY <2>4, <3>1, <3>3 DEF PutAt
    <2> HIDE DEF U
    <2>9. ASSUME NEW i \in DOMAIN t.blocks \union {k}
          PROVE  Streamed(em, w.blocks[i]) = IF i = k THEN block ELSE shown[i]
      <3>1. CASE i = k
        BY <1>5, <3>1 DEF PutAt, Puttable
      <3>2. CASE i # k
        <4>1. i \in DOMAIN t.blocks /\ w.blocks[i] = t.blocks[i] /\ t.blocks[i].id # block.id
          BY <1>4, <1>5, <2>9, <3>2 DEF PutAt
        <4> QED
          BY <2>4, <3>2, <4>1 DEF Puttable
      <3> QED
        BY <3>1, <3>2
    <2>10. InTheBrowser(w) = U
      BY <1>2, <1>5, <2>8, <2>9 DEF InTheBrowser, PutAt
    <2> QED
      BY <1>3, <2>3, <2>10 DEF U
  <1>9. Good(w, calls) /\ w.sent # "nothing"
    <2>1. w.sent # "nothing"
      BY <1>2
    <2> QED
      BY <1>2, <1>3, <1>7, <1>8, <2>1 DEF Good, Mirrors, Unsent
  <1> QED
    BY <1>2, <1>3, <1>6, <1>9 DEF w

-------------------------------------------------------------------------------
(* Contents that grow *)

LEMMA AppendedPiece ==
    ASSUME NEW content \in Pieces, NEW delta \in Nat \X Nat
    PROVE  /\ Append(content, delta) = content \o <<delta>>
           /\ Append(content, delta) \in Pieces /\ <<delta>> \in Pieces
  <1>1. content \in Seq(Nat \X Nat)
    BY DEF Pieces
  <1> DEFINE S == Nat \X Nat
  <1>2. content \in Seq(S) /\ delta \in S
    BY <1>1
  <1> HIDE DEF S
  <1>3. Append(content, delta) = content \o <<delta>> /\ Append(content, delta) \in Seq(S)
        /\ <<delta>> \in Seq(S)
    BY <1>2
  <1> QED
    BY <1>3 DEF S, Pieces

Grow(blocks, k, delta) == [blocks EXCEPT ![k].content = blocks[k].content \o delta]

LEMMA GrownTyped ==
    ASSUME NEW blocks \in Seq(Blocks), NEW k, NEW content \in Pieces
    PROVE  LET r == [blocks EXCEPT ![k].content = content]
           IN  /\ r \in Seq(Blocks) /\ DOMAIN r = DOMAIN blocks
               /\ \A i \in DOMAIN blocks \ {k} : r[i] = blocks[i]
               /\ k \in DOMAIN blocks => r[k] = [blocks[k] EXCEPT !.content = content]
  <1>1. CASE k \in DOMAIN blocks
    <2>1. blocks[k] \in Blocks
      BY <1>1
    <2>2. [blocks[k] EXCEPT !.content = content] \in Blocks
      BY <2>1 DEF Blocks
    <2>3. [blocks EXCEPT ![k].content = content]
            = [blocks EXCEPT ![k] = [blocks[k] EXCEPT !.content = content]]
      OBVIOUS
    <2> QED
      BY <1>1, <2>2, <2>3, ReplacedTyped
  <1>2. CASE k \notin DOMAIN blocks
    <2>1. [blocks EXCEPT ![k].content = content] = blocks
      BY <1>2
    <2> QED
      BY <1>2, <2>1
  <1> QED
    BY <1>1, <1>2

LEMMA FoldedDelta ==
    ASSUME NEW m \in Copies, NEW id \in Nat, NEW bid \in BlockIds,
           NEW type \in TextLike \union {"tool_call", "tool_result"}, NEW delta \in Pieces
    PROVE  LET f == Folded(m, [type |-> "message_block_delta", id |-> id, block |-> bid,
                               blockType |-> type, delta |-> delta])
           IN  /\ f \in Copies
               /\ \A k \in DOMAIN m.blocks :
                    m.id = id /\ WithId(m.blocks, bid) = {k}
                      => f = [id |-> id,
                              blocks |-> Grow(m.blocks, k, delta)]
  <1> DEFINE n == IF m.id = id THEN m ELSE [id |-> id, blocks |-> <<>>]
             at == WithId(n.blocks, bid)
             made == Append(n.blocks, Block(bid, type, None, {}, delta, "none"))
             grown == [n.blocks EXCEPT ![Min(at)].content = n.blocks[Min(at)].content \o delta]
             event == [type |-> "message_block_delta", id |-> id, block |-> bid,
                       blockType |-> type, delta |-> delta]
             f == Folded(m, event)
  <1>1. n \in Copies /\ n.id = id /\ (m.id = id => n = m)
    BY DEF Copies
  <1>2. f = [n EXCEPT !.blocks = IF at = {} THEN made ELSE grown]
    <2>1. /\ event.type = "message_block_delta" /\ event.id = id /\ event.block = bid
          /\ event.blockType = type /\ event.delta = delta
      OBVIOUS
    <2> HIDE DEF event
    <2>2. /\ event.type # "message_upsert" /\ event.type # "message_block_upsert"
          /\ event.type = "message_block_delta"
      BY <2>1
    <2>3. Folded(m, event) =
            [n EXCEPT !.blocks =
                IF WithId(n.blocks, event.block) = {}
                THEN Append(n.blocks, Block(event.block, event.blockType, None, {}, event.delta, "none"))
                ELSE [n.blocks EXCEPT ![Min(WithId(n.blocks, event.block))].content =
                        n.blocks[Min(WithId(n.blocks, event.block))].content \o event.delta]]
      <3>1. n = IF m.id = event.id THEN m ELSE [id |-> event.id, blocks |-> <<>>]
        BY <2>1
      <3> HIDE DEF n
      <3> QED
        BY <2>2, <3>1 DEF Folded
    <2> QED
      BY <2>1, <2>3
  <1>3. made \in Seq(Blocks)
    <2>1. Block(bid, type, None, {}, delta, "none") \in Blocks
      BY DEF Block, Blocks, Statuses
    <2>2. n.blocks \in Seq(Blocks)
      BY <1>1 DEF Copies
    <2>3. \A b \in Blocks : Append(n.blocks, b) \in Seq(Blocks)
      BY <2>2
    <2> QED
      BY <2>1, <2>3
  <1>4. grown \in Seq(Blocks)
    <2>1. n.blocks \in Seq(Blocks)
      BY <1>1 DEF Copies
    <2>2. CASE Min(at) \in DOMAIN n.blocks
      <3>1. n.blocks[Min(at)].content \in Pieces
        <4>1. n.blocks[Min(at)] \in Blocks
          BY <2>1, <2>2
        <4> QED
          BY <4>1 DEF Blocks
      <3>2. n.blocks[Min(at)].content \o delta \in Pieces
        BY <3>1 DEF Pieces
      <3> QED
        BY <2>1, <3>2, GrownTyped
    <2>3. CASE Min(at) \notin DOMAIN n.blocks
      <3>1. grown = n.blocks
        BY <2>1, <2>3
      <3> QED
        BY <2>1, <3>1
    <2> QED
      BY <2>2, <2>3
  <1>5. f \in Copies
    BY <1>1, <1>2, <1>3, <1>4 DEF Copies
  <1>6. ASSUME NEW k \in DOMAIN m.blocks, m.id = id, WithId(m.blocks, bid) = {k}
        PROVE  f = [id |-> id,
                    blocks |-> Grow(m.blocks, k, delta)]
    <2>1. m.blocks \in Seq(Blocks)
      BY DEF Copies
    <2>2. k \in Int
      BY <2>1
    <2>3. n = m /\ at = {k} /\ Min(at) = k
      BY <1>1, <1>6, <2>2, MinOfOne
    <2>4. f = [m EXCEPT !.blocks = Grow(m.blocks, k, delta)]
      BY <1>2, <2>3 DEF Grow
    <2> QED
      BY <1>6, <2>4 DEF Copies
  <1> QED
    BY <1>5, <1>6

(* What emitting a delta of a block changes *)
Extends(t, bid, delta, w) ==
    /\ w \in Workings /\ Unmoved(t, w)
    /\ w.open = t.open /\ w.blocks = t.blocks /\ w.emitted = t.emitted
    /\ w.sent = (IF t.sent = "whole" THEN "whole" ELSE "part")
    /\ \A k \in DOMAIN t.shown.blocks :
         t.shown.id = t.id /\ WithId(t.shown.blocks, bid) = {k}
           => w.shown = [id |-> t.id, blocks |-> Grow(t.shown.blocks, k, delta)]

LEMMA DeltaFields ==
    ASSUME NEW t \in Workings, NEW bid \in BlockIds,
           NEW type \in TextLike \union {"tool_call", "tool_result"}, NEW delta \in Pieces
    PROVE  Extends(t, bid, delta, Delta(t, bid, type, delta))
  <1> DEFINE f == Folded(t.shown, [type |-> "message_block_delta", id |-> t.id, block |-> bid,
                                   blockType |-> type, delta |-> delta])
  <1>1. Delta(t, bid, type, delta) =
            [t EXCEPT !.shown = f, !.sent = IF t.sent = "whole" THEN "whole" ELSE "part"]
    BY DEF Delta, Emit, Workings
  <1>2. t.shown \in Copies /\ t.id \in Nat
    BY DEF Workings
  <1>3. /\ f \in Copies
        /\ \A k \in DOMAIN t.shown.blocks :
             t.shown.id = t.id /\ WithId(t.shown.blocks, bid) = {k}
               => f = [id |-> t.id,
                       blocks |-> Grow(t.shown.blocks, k, delta)]
    <2>1. \A m \in Copies : \A id \in Nat :
            LET g == Folded(m, [type |-> "message_block_delta", id |-> id, block |-> bid,
                                blockType |-> type, delta |-> delta])
            IN  /\ g \in Copies
                /\ \A k \in DOMAIN m.blocks :
                     m.id = id /\ WithId(m.blocks, bid) = {k}
                       => g = [id |-> id,
                               blocks |-> Grow(m.blocks, k, delta)]
      BY FoldedDelta
    <2> QED
      BY <1>2, <2>1, Zenon
  <1> QED
    <2> HIDE DEF f
    <2> QED
      BY <1>1, <1>3 DEF Extends, Unmoved, Workings

(* A block of which only the content changes stays in place. *)
LEMMA GrownSound ==
    ASSUME NEW calls, NEW t, NEW w, BlocksSound(t, calls), t.blocks \in Seq(Blocks),
           w.id = t.id, w.made = t.made, w.emitted = t.emitted,
           NEW k \in DOMAIN t.blocks, NEW content \in Pieces,
           w.blocks = [t.blocks EXCEPT ![k].content = content]
    PROVE  BlocksSound(w, calls)
  <1>1. /\ DOMAIN w.blocks = DOMAIN t.blocks
        /\ \A i \in DOMAIN t.blocks :
             /\ w.blocks[i].id = t.blocks[i].id /\ w.blocks[i].type = t.blocks[i].type
             /\ w.blocks[i].tool = t.blocks[i].tool /\ w.blocks[i].of = t.blocks[i].of
    BY GrownTyped DEF Blocks
  <1>2. ASSUME NEW i \in DOMAIN t.blocks
        PROVE  WellFormed(w, calls, w.blocks[i])
    <2>1. WellFormed(t, calls, t.blocks[i])
      BY DEF BlocksSound
    <2> QED
      BY <1>1, <2>1 DEF WellFormed, Tells, ToolBlockId
  <1>3. \A tool : Results(w.blocks, tool) = Results(t.blocks, tool)
    BY <1>1 DEF Results
  <1>4. \A i, j \in DOMAIN t.blocks : OfTools(w.blocks[i], w.blocks[j]) <=> OfTools(t.blocks[i], t.blocks[j])
    BY <1>1 DEF OfTools
  <1>5. \A i, j \in DOMAIN t.blocks :
          /\ t.blocks[i].id = t.blocks[j].id => i = j
          /\ OfTools(t.blocks[i], t.blocks[j]) =>
               (t.blocks[i].of = t.blocks[j].of <=> t.blocks[i].tool = t.blocks[j].tool)
    BY DEF BlocksSound
  <1>6. \A i, j \in DOMAIN w.blocks :
          /\ w.blocks[i].id = w.blocks[j].id => i = j
          /\ OfTools(w.blocks[i], w.blocks[j]) =>
               (w.blocks[i].of = w.blocks[j].of <=> w.blocks[i].tool = w.blocks[j].tool)
    BY <1>1, <1>4, <1>5
  <1>7. \A tool \in DOMAIN w.emitted : Results(w.blocks, tool) # {}
    BY <1>3 DEF BlocksSound
  <1> QED
    BY <1>1, <1>2, <1>6, <1>7 DEF BlocksSound

-------------------------------------------------------------------------------
(* The ids of new blocks *)

LEMMA LeastOfNaturals ==
    ASSUME NEW S \in SUBSET Nat, S # {}
    PROVE  Min(S) \in S /\ \A n \in S : Min(S) <= n
  <1> DEFINE R == {p \in Nat \X Nat : p[1] < p[2]}
  <1>1. IsWellFoundedOn(R, Nat)
    <2>1. R = OpToRel(<, Nat)
      BY DEF OpToRel
    <2> QED
      BY <2>1, NatLessThanWellFounded, Zenon
  <1>2. PICK x \in S : \A y \in S : ~ (<<y, x>> \in R)
    BY <1>1, WFMin
  <1>3. ASSUME NEW y \in S
        PROVE  x <= y
    <2>1. x \in Nat /\ y \in Nat
      OBVIOUS
    <2>2. <<y, x>> \in Nat \X Nat /\ <<y, x>>[1] = y /\ <<y, x>>[2] = x
      BY <2>1
    <2>3. ~(y < x)
      BY <1>2, <2>2
    <2> QED
      BY <2>1, <2>3
  <1> QED
    BY <1>3 DEF Min

(* A new block's id is none of the message's. *)
LEMMA NewIdIsFree ==
    ASSUME NEW t \in Workings, NEW type \in TextLike
    PROVE  \E n \in Nat : /\ NextTextLikeBlockId(t, type) = <<t.id, type, n>>
                          /\ WithId(t.blocks, <<t.id, type, n>>) = {}
  <1> DEFINE count == Cardinality({i \in DOMAIN t.blocks : t.blocks[i].type = type})
             used == {b.id : b \in ToSet(t.blocks)}
             range == count..(count + Len(t.blocks))
             free == {n \in range : <<t.id, type, n>> \notin used}
  <1>1. t.blocks \in Seq(Blocks) /\ Len(t.blocks) \in Nat /\ DOMAIN t.blocks = 1..Len(t.blocks)
    BY DEF Workings
  <1>2. IsFiniteSet(DOMAIN t.blocks) /\ Cardinality(DOMAIN t.blocks) = Len(t.blocks)
    BY <1>1, FS_Interval
  <1>3. count \in Nat
    <2>1. {i \in DOMAIN t.blocks : t.blocks[i].type = type} \in SUBSET DOMAIN t.blocks
      BY Zenon
    <2> QED
      BY <1>2, <2>1, FS_Subset, FS_CardinalityType, Zenon
  <1>4. used = {t.blocks[i].id : i \in DOMAIN t.blocks}
    BY DEF ToSet
  <1> HIDE DEF count
  <1>5. free # {}
    <2> SUFFICES ASSUME free = {}
                 PROVE  FALSE
      OBVIOUS
    <2>1. \A n \in range : \E i \in DOMAIN t.blocks : t.blocks[i].id = <<t.id, type, n>>
      BY <1>4, Zenon
    <2> DEFINE place == [n \in range |->
                           CHOOSE i \in DOMAIN t.blocks : t.blocks[i].id = <<t.id, type, n>>]
    <2>2. \A n \in range : place[n] \in DOMAIN t.blocks /\ t.blocks[place[n]].id = <<t.id, type, n>>
      BY <2>1
    <2>3. IsFiniteSet(range) /\ Cardinality(range) = Len(t.blocks) + 1
      <3>1. \A c, n \in Nat : c + n \in Int /\ ~(c > c + n) /\ (c + n) - c + 1 = n + 1
        OBVIOUS
      <3>2. count + Len(t.blocks) \in Int /\ ~(count > count + Len(t.blocks))
            /\ (count + Len(t.blocks)) - count + 1 = Len(t.blocks) + 1
        BY <1>1, <1>3, <3>1
      <3> QED
        BY <1>3, <3>2, FS_Interval
    <2>4. place \in [range -> DOMAIN t.blocks]
      BY <2>2
    <2> HIDE DEF place, range
    <2>5. PICK m \in range, n \in range : m # n /\ place[m] = place[n]
      BY <1>1, <1>2, <2>3, <2>4, FS_PigeonHole
    <2> QED
      BY <2>2, <2>5
  <1>6. Min(free) \in free
    <2>1. range \in SUBSET Nat
      BY <1>1, <1>3
    <2>2. free \in SUBSET Nat
      BY <2>1
    <2> QED
      BY <1>5, <2>2, LeastOfNaturals
  <1>7. Min(free) \in Nat
    BY <1>1, <1>3, <1>6
  <1>8. NextTextLikeBlockId(t, type) = <<t.id, type, Min(free)>>
    BY DEF NextTextLikeBlockId, count
  <1>9. WithId(t.blocks, <<t.id, type, Min(free)>>) = {}
    BY <1>4, <1>6 DEF WithId
  <1> QED
    BY <1>7, <1>8, <1>9

LEMMA UpsertIsPut ==
    ASSUME NEW t \in Workings, NEW block \in Blocks
    PROVE  UpsertBlock(t, block) = PutOf(t, block, t.emitted)
  <1> DEFINE f == Folded(t.shown, [type |-> "message_block_upsert", id |-> t.id, block |-> block])
             b == Upserted(t.blocks, block)
             s == IF t.sent = "whole" THEN "whole" ELSE "part"
             u == [t EXCEPT !.blocks = b, !.shown = f, !.sent = s]
  <1>1. f \in Copies /\ b \in Seq(Blocks) /\ s \in {"nothing", "part", "whole"}
    BY FoldedTyped, UpsertTyped DEF Workings
  <1>2. UpsertBlock(t, block) = u
    BY DEF UpsertBlock, Emit, Workings
  <1>3. [u EXCEPT !.emitted = t.emitted] = u
    <2> HIDE DEF f, b, s
    <2>1. u \in Workings /\ u.emitted = t.emitted
      BY <1>1 DEF Workings
    <2> HIDE DEF u
    <2> QED
      BY <2>1 DEF Workings
  <1> QED
    BY <1>2, <1>3 DEF PutOf

(* A new text block, or none if there is one of that id *)
NewEmpty(t, w, id, type) ==
    \A i \in DOMAIN w.blocks : i \notin DOMAIN t.blocks =>
        w.blocks[i].id = id /\ w.blocks[i].type = type /\ w.blocks[i].content = <<>>

LEMMA TextBlockKeeps ==
    ASSUME NEW calls, NEW t, Good(t, calls), t.open, NEW type \in TextLike,
           NEW n \in Nat, NEW id, id = <<t.id, type, n>>
    PROVE  LET w == EnsureTextLikeBlock(t, id, type)
           IN  /\ Good(w, calls) /\ w.open /\ Unmoved(t, w) /\ w.emitted = t.emitted
               /\ \E k \in DOMAIN w.blocks : WithId(w.blocks, id) = {k}
               /\ \A i \in DOMAIN t.blocks : i \in DOMAIN w.blocks /\ w.blocks[i] = t.blocks[i]
               /\ NewEmpty(t, w, id, type)
  <1> DEFINE w == EnsureTextLikeBlock(t, id, type)
             block == Block(id, type, None, {}, <<>>, "none")
             p == PutOf(t, block, t.emitted)
  <1>1. CASE WithId(t.blocks, id) # {}
    <2>1. w = t
      BY <1>1 DEF EnsureTextLikeBlock
    <2>2. PICK k \in DOMAIN t.blocks : t.blocks[k].id = id
      BY <1>1 DEF WithId
    <2>3. WithId(t.blocks, id) = {k}
      BY <2>2 DEF WithId, Good, BlocksSound
    <2> QED
      BY <2>1, <2>3 DEF Unmoved, NewEmpty
  <1>2. CASE WithId(t.blocks, id) = {}
    <2>1. t \in Workings /\ t.id \in Nat /\ t.emitted \in Emissions
      BY DEF Good, Workings
    <2>2. /\ block \in Blocks /\ block.id = id /\ block.type = type /\ block.of = {}
          /\ block.content = <<>>
      <3>1. id \in BlockIds
        BY <2>1 DEF BlockIds
      <3>2. <<>> \in Pieces
        BY DEF Pieces
      <3> QED
        BY <3>1, <3>2 DEF Block, Blocks, Statuses
    <2>3. UpsertBlock(t, block) = p
      BY <2>1, <2>2, UpsertIsPut
    <2>4. w = p
      BY <1>2, <2>3 DEF EnsureTextLikeBlock
    <2>5. Puttable(t, calls, block, t.emitted)
      <3>1. WellFormed(t, calls, block)
        <4>1. id \in {t.id} \X {type} \X Nat
          OBVIOUS
        <4> QED
          BY <2>2, <4>1 DEF WellFormed
      <3>2. Streamed(t.emitted, block) = block
        BY <2>2 DEF Streamed, TextLike
      <3>3. \A i \in DOMAIN t.blocks : ~OfTools(t.blocks[i], block)
        BY <2>2 DEF OfTools
      <3> QED
        BY <2>1, <2>2, <3>1, <3>2, <3>3 DEF Puttable
    <2> HIDE DEF block
    <2>6. /\ Good(p, calls) /\ p.open /\ Unmoved(t, p) /\ p.emitted = t.emitted
          /\ PutIn(t, block, p)
      BY <2>5, PutKeeps
    <2>7. PICK k \in Nat : PutAt(t.blocks, block, k, p.blocks)
                           /\ (k \in DOMAIN t.blocks => t.blocks[k].id = block.id)
      BY <2>6 DEF PutIn
    <2>8. k \notin DOMAIN t.blocks
      BY <1>2, <2>2, <2>7 DEF WithId
    <2>9. WithId(p.blocks, id) = {k}
      <3>1. /\ DOMAIN p.blocks = DOMAIN t.blocks \union {k} /\ p.blocks[k].id = id
            /\ \A i \in DOMAIN t.blocks \ {k} : p.blocks[i] = t.blocks[i]
        BY <2>2, <2>7 DEF PutAt
      <3>2. \A i \in DOMAIN t.blocks : t.blocks[i].id # id
        BY <1>2 DEF WithId
      <3> QED
        BY <2>8, <3>1, <3>2 DEF WithId
    <2> QED
      BY <2>2, <2>4, <2>6, <2>7, <2>8, <2>9 DEF PutAt, NewEmpty
  <1> QED
    BY <1>1, <1>2

(* The blocks of tools are the same. *)
SameTools(t, w) ==
    /\ \A i \in DOMAIN t.blocks : i \in DOMAIN w.blocks
                                  /\ (t.blocks[i].type \notin TextLike => w.blocks[i] = t.blocks[i])
    /\ \A i \in DOMAIN w.blocks :
         w.blocks[i].type \notin TextLike => i \in DOMAIN t.blocks /\ t.blocks[i] = w.blocks[i]

TextKey(t, type, id) == id \in {t.id} \X {type} \X Nat

(* A delta is in block k, the one of the key or a new one. *)
Adds(t, w, type, delta, k) ==
    /\ DOMAIN w.blocks = DOMAIN t.blocks \union {k}
    /\ \A i \in DOMAIN t.blocks \ {k} : w.blocks[i] = t.blocks[i]
    /\ w.blocks[k].type = type /\ w.blocks[k].id = w.key[type]
    /\ IF k \in DOMAIN t.blocks
       THEN /\ t.blocks[k].type = type /\ t.key[type] # None /\ t.blocks[k].id = t.key[type]
            /\ w.blocks[k].content = Append(t.blocks[k].content, delta)
       ELSE w.blocks[k].content = <<delta>>

LEMMA AppendKeeps ==
    ASSUME NEW calls, NEW t, Good(t, calls), NEW type \in TextLike, NEW delta \in Nat \X Nat,
           t.key[type] # None => TextKey(t, type, t.key[type])
    PROVE  LET w == AppendAssistantBlockDelta(t, type, delta)
           IN  /\ Good(w, calls) /\ w.open /\ SameTools(t, w)
               /\ w.anchor = t.anchor /\ w.anon = t.anon /\ w.ambiguous = t.ambiguous
               /\ w.made = t.made /\ w.id = t.id
               /\ TextKey(t, type, w.key[type])
               /\ \A other \in TextLike \ {type} : w.key[other] = t.key[other]
               /\ \E k \in DOMAIN w.blocks : Adds(t, w, type, delta, k)
  <1> DEFINE m == EnsureAssistantMessage(t)
             id == IF m.key[type] # None THEN m.key[type] ELSE NextTextLikeBlockId(m, type)
             b == EnsureTextLikeBlock(m, id, type)
             content == Append(b.blocks[Min(WithId(b.blocks, id))].content, delta)
             c == [b EXCEPT !.key[type] = id,
                            !.blocks[Min(WithId(b.blocks, id))].content = Append(@, delta)]
             w == Delta(c, id, type, <<delta>>)
  <1>0. AppendAssistantBlockDelta(t, type, delta) = w
    BY DEF AppendAssistantBlockDelta
  <1>1. Good(m, calls) /\ m.open /\ Unmoved(t, m) /\ m.blocks = t.blocks /\ m.emitted = t.emitted
    BY EnsureKeeps
  <1>2. m \in Workings /\ m.id \in Nat /\ m.id = t.id /\ m.key = t.key
    BY <1>1 DEF Good, Workings, Unmoved
  <1> HIDE DEF m
  <1>3. TextKey(m, type, id)
    <2>1. CASE m.key[type] # None
      BY <1>2, <2>1 DEF TextKey
    <2>2. CASE m.key[type] = None
      <3>1. PICK n \in Nat : NextTextLikeBlockId(m, type) = <<m.id, type, n>>
        BY <1>2, NewIdIsFree
      <3>2. id = <<m.id, type, n>>
        BY <2>2, <3>1
      <3> HIDE DEF id
      <3>3. <<m.id, type, n>> \in {m.id} \X {type} \X Nat
        OBVIOUS
      <3> QED
        BY ONLY <3>2, <3>3 DEF TextKey
    <2> QED
      BY <2>1, <2>2
  <1>22. PICK free \in Nat : /\ NextTextLikeBlockId(m, type) = <<m.id, type, free>>
                             /\ WithId(m.blocks, <<m.id, type, free>>) = {}
    BY <1>2, NewIdIsFree
  <1>24. m.key[type] # None => id = m.key[type]
    OBVIOUS
  <1>25. m.key[type] = None => id = <<m.id, type, free>>
    BY <1>22
  <1> HIDE DEF id
  <1>4. PICK n \in Nat : id = <<m.id, type, n>>
    BY <1>3 DEF TextKey
  <1>5. /\ Good(b, calls) /\ b.open /\ Unmoved(m, b) /\ b.emitted = m.emitted
        /\ \E k \in DOMAIN b.blocks : WithId(b.blocks, id) = {k}
        /\ \A i \in DOMAIN m.blocks : i \in DOMAIN b.blocks /\ b.blocks[i] = m.blocks[i]
        /\ NewEmpty(m, b, id, type)
    BY <1>1, <1>4, TextBlockKeeps
  <1> HIDE DEF b
  <1>6. PICK k \in DOMAIN b.blocks : WithId(b.blocks, id) = {k}
    BY <1>5
  <1>7. /\ b \in Workings /\ b.blocks \in Seq(Blocks) /\ b.blocks[k] \in Blocks
        /\ b.id = m.id /\ b.shown \in Copies /\ BlocksSound(b, calls)
    BY <1>5 DEF Good, Workings, Unmoved
  <1>8. Min(WithId(b.blocks, id)) = k
    <2>1. k \in Int
      BY <1>7
    <2> QED
      BY <1>6, <2>1, MinOfOne
  <1>9. b.blocks[k].id = id /\ b.blocks[k].type = type
    <2>1. b.blocks[k].id = id
      BY <1>6 DEF WithId
    <2>2. WellFormed(b, calls, b.blocks[k])
      BY <1>7 DEF BlocksSound
    <2>3. b.blocks[k].type \in TextLike
      <3>1. b.blocks[k].type \notin TextLike =>
              b.blocks[k].id[2] \in {"call", "result"}
        BY <2>2 DEF WellFormed, ToolBlockId
      <3> QED
        BY <1>4, <2>1, <3>1 DEF TextLike
    <2> QED
      BY <1>4, <2>1, <2>2, <2>3 DEF WellFormed
  <1>10. content \in Pieces /\ content = b.blocks[k].content \o <<delta>> /\ <<delta>> \in Pieces
    <2>1. b.blocks[k].content \in Pieces
      BY <1>7 DEF Blocks
    <2>2. content = Append(b.blocks[k].content, delta)
      BY <1>8
    <2> HIDE DEF content
    <2> QED
      BY <2>1, <2>2, AppendedPiece
  <1> DEFINE grown == [b.blocks EXCEPT ![k].content = content]
  <1>11. c = [b EXCEPT !.key[type] = id, !.blocks = grown]
    BY <1>8 DEF content
  <1> HIDE DEF c, content
  <1>12. /\ grown \in Seq(Blocks) /\ DOMAIN grown = DOMAIN b.blocks
         /\ \A i \in DOMAIN b.blocks \ {k} : grown[i] = b.blocks[i]
         /\ grown[k] = [b.blocks[k] EXCEPT !.content = content]
    BY <1>7, <1>10, GrownTyped
  <1>13. id \in BlockIds
    BY <1>2, <1>4 DEF BlockIds
  <1>14. /\ c \in Workings /\ c.blocks = grown /\ c.open /\ c.id = b.id /\ c.made = b.made
         /\ c.emitted = b.emitted /\ c.shown = b.shown /\ c.sent = b.sent
         /\ c.anchor = b.anchor /\ c.anon = b.anon /\ c.ambiguous = b.ambiguous
         /\ c.key[type] = id /\ \A other \in TextLike \ {type} : c.key[other] = b.key[other]
    <2>1. [b.key EXCEPT ![type] = id] \in Keys
      BY <1>7, <1>13 DEF Workings, Keys
    <2>2. c = [b EXCEPT !.key = [b.key EXCEPT ![type] = id], !.blocks = grown]
      BY <1>11
    <2>3. /\ [b.key EXCEPT ![type] = id][type] = id
          /\ \A other \in TextLike \ {type} : [b.key EXCEPT ![type] = id][other] = b.key[other]
      BY <1>7 DEF Workings, Keys
    <2> HIDE DEF grown
    <2>4. b.open
      BY <1>5
    <2> QED
      BY <1>7, <1>12, <2>1, <2>2, <2>3, <2>4 DEF Workings
  <1>15. BlocksSound(c, calls)
    BY <1>7, <1>10, <1>14, GrownSound
  <1>16. /\ w \in Workings /\ Unmoved(c, w)
         /\ w.open = c.open /\ w.blocks = c.blocks /\ w.emitted = c.emitted
         /\ w.sent = (IF c.sent = "whole" THEN "whole" ELSE "part")
         /\ \A l \in DOMAIN c.shown.blocks :
              c.shown.id = c.id /\ WithId(c.shown.blocks, id) = {l}
                => w.shown = [id |-> c.id,
                              blocks |-> Grow(c.shown.blocks, l, <<delta>>)]
    <2>1. type \in TextLike \union {"tool_call", "tool_result"}
      OBVIOUS
    <2>2. <<delta>> \in Pieces /\ c \in Workings
      BY <1>10, <1>14
    <2> QED
      BY <1>13, <2>1, <2>2, DeltaFields DEF Extends
  <1> HIDE DEF w
  <1>17. BlocksSound(w, calls)
    BY <1>15, <1>16 DEF BlocksSound, WellFormed, Tells, ToolBlockId, Unmoved
  <1>18. Mirrors(w)
    <2> SUFFICES ASSUME ~missed \/ w.sent = "whole"
                 PROVE  w.shown = [id |-> w.id, blocks |-> InTheBrowser(w)]
      BY DEF Mirrors
    <2> DEFINE shown == InTheBrowser(b)
    <2>1. b.shown = [id |-> b.id, blocks |-> shown]
      BY <1>5, <1>14, <1>16 DEF Good, Mirrors
    <2>2. /\ DOMAIN shown = DOMAIN b.blocks
          /\ \A i \in DOMAIN b.blocks : shown[i] = Streamed(b.emitted, b.blocks[i])
      BY DEF InTheBrowser
    <2>3. shown \in Seq(Blocks)
      BY <1>7, <2>1 DEF Copies
    <2> HIDE DEF shown
    <2>4. WithId(shown, id) = {k}
      <3>1. \A i \in DOMAIN b.blocks : shown[i].id = b.blocks[i].id
        BY <1>7, <2>2, StreamedAlike
      <3> QED
        BY <1>6, <2>2, <3>1 DEF WithId
    <2>5. shown[k] = b.blocks[k]
      BY <1>9, <2>2 DEF Streamed, TextLike
    <2> DEFINE later == [shown EXCEPT ![k].content = content]
    <2>6. w.shown = [id |-> b.id, blocks |-> later]
      <3>1. c.shown.id = c.id /\ c.shown.blocks = shown /\ c.id = b.id
        BY <1>14, <2>1
      <3>2. w.shown = [id |-> b.id,
                       blocks |-> Grow(shown, k, <<delta>>)]
        BY <1>16, <2>2, <2>4, <3>1
      <3> QED
        BY <1>10, <2>5, <3>2 DEF Grow
    <2>7. /\ later \in Seq(Blocks) /\ DOMAIN later = DOMAIN shown
          /\ \A i \in DOMAIN shown \ {k} : later[i] = shown[i]
          /\ later[k] = [shown[k] EXCEPT !.content = content]
      <3>1. k \in DOMAIN shown /\ content \in Pieces
        BY <1>10, <2>2
      <3> QED
        BY ONLY <2>3, <3>1, GrownTyped
    <2>8. later = [i \in DOMAIN later |-> later[i]]
      <3>1. later \in [DOMAIN later -> Blocks]
        BY <2>7
      <3> QED
        BY <3>1
    <2> HIDE DEF later, grown
    <2>9. ASSUME NEW i \in DOMAIN b.blocks
          PROVE  later[i] = Streamed(b.emitted, grown[i])
      <3>1. CASE i = k
        <4>1. grown[k].type = type
          BY <1>7, <1>9, <1>12 DEF Blocks
        <4>2. Streamed(b.emitted, grown[k]) = grown[k]
          BY <4>1 DEF Streamed, TextLike
        <4> QED
          BY <1>12, <2>2, <2>5, <2>7, <3>1, <4>2
      <3>2. CASE i # k
        BY <1>12, <2>2, <2>7, <3>2
      <3> QED
        BY <3>1, <3>2
    <2>10. later = InTheBrowser(w)
      BY <1>12, <1>14, <1>16, <2>2, <2>7, <2>8, <2>9 DEF InTheBrowser
    <2> QED
      BY <1>14, <1>16, <2>6, <2>10 DEF Unmoved
  <1>19. SameTools(t, w)
    <2>1. \A i \in DOMAIN b.blocks : i # k => w.blocks[i] = b.blocks[i]
      BY <1>12, <1>14, <1>16
    <2>2. w.blocks[k].type = type /\ DOMAIN w.blocks = DOMAIN b.blocks
      BY <1>7, <1>9, <1>12, <1>14, <1>16 DEF Blocks
    <2> QED
      BY <1>1, <1>5, <1>9, <2>1, <2>2 DEF SameTools, NewEmpty
  <1>20. Good(w, calls)
    BY <1>1, <1>2, <1>7, <1>14, <1>16, <1>17, <1>18 DEF Good, Unsent, Unmoved
  <1>21. /\ w.anchor = t.anchor /\ w.anon = t.anon /\ w.ambiguous = t.ambiguous
         /\ w.made = t.made /\ w.id = t.id
         /\ TextKey(t, type, w.key[type])
         /\ \A other \in TextLike \ {type} : w.key[other] = t.key[other]
    BY <1>1, <1>2, <1>3, <1>5, <1>14, <1>16 DEF Unmoved, TextKey
  <1>23. Adds(t, w, type, delta, k)
    <2>1. /\ DOMAIN w.blocks = DOMAIN b.blocks
          /\ \A i \in DOMAIN b.blocks \ {k} : w.blocks[i] = b.blocks[i]
          /\ w.blocks[k].id = id /\ w.blocks[k].type = type
          /\ w.blocks[k].content = Append(b.blocks[k].content, delta)
      BY <1>7, <1>8, <1>9, <1>12, <1>14, <1>16 DEF Blocks, content
    <2>2. w.key[type] = id
      BY <1>14, <1>16 DEF Unmoved
    <2>3. \A i \in DOMAIN b.blocks : i \notin DOMAIN t.blocks => i = k
      BY <1>1, <1>5, <1>6 DEF WithId, NewEmpty
    <2>4. ASSUME k \in DOMAIN t.blocks
          PROVE  t.key[type] # None /\ t.blocks[k].id = t.key[type] /\ b.blocks[k] = t.blocks[k]
      <3>1. b.blocks[k] = t.blocks[k] /\ t.blocks[k].id = id
        BY <1>1, <1>5, <1>9, <2>4
      <3>2. m.key[type] = None => t.blocks[k].id # <<m.id, type, free>>
        BY <1>1, <1>22, <2>4 DEF WithId
      <3> QED
        BY <1>2, <1>24, <1>25, <3>1, <3>2
    <2>5. ASSUME k \notin DOMAIN t.blocks
          PROVE  w.blocks[k].content = <<delta>>
      <3>1. b.blocks[k].content = <<>>
        BY <1>1, <1>5, <2>5 DEF NewEmpty
      <3>2. Append(<<>>, delta) = <<delta>>
        OBVIOUS
      <3> QED
        BY <2>1, <3>1, <3>2
    <2> QED
      BY <1>1, <1>5, <1>9, <2>1, <2>2, <2>3, <2>4, <2>5 DEF Adds
  <1> QED
    BY <1>0, <1>14, <1>16, <1>19, <1>20, <1>21, <1>23

-------------------------------------------------------------------------------
(* Blocks of tools *)

(* A tool's blocks are those of execution e. *)
Fits(t, g, e) ==
    \A i \in DOMAIN t.blocks : t.blocks[i].type \notin TextLike =>
        (t.blocks[i].of = {e} <=> t.blocks[i].tool = g)

CallBlock(id, g, e, status) == Block(<<id, "call", g>>, "tool_call", g, {e}, <<>>, status)
ResultBlock(id, g, e, content, status) ==
    Block(<<id, "result", g>>, "tool_result", g, {e}, content, status)

LEMMA ToolBlocksTyped ==
    ASSUME NEW id \in Nat, NEW g \in ToolIds, NEW e \in Nat, NEW content \in Pieces,
           NEW status \in Statuses
    PROVE  /\ CallBlock(id, g, e, status) \in Blocks
           /\ ResultBlock(id, g, e, content, status) \in Blocks
  <1>1. <<id, "call", g>> \in BlockIds /\ <<id, "result", g>> \in BlockIds
    BY DEF BlockIds
  <1>2. <<>> \in Pieces
    BY DEF Pieces
  <1> QED
    BY <1>1, <1>2 DEF CallBlock, ResultBlock, Block, Blocks

LEMMA ToolBlocksFormed ==
    ASSUME NEW t, NEW calls, NEW g \in ToolIds, NEW e \in DOMAIN calls, NEW content, NEW status,
           Tells(t, calls, g, e)
    PROVE  /\ WellFormed(t, calls, CallBlock(t.id, g, e, status))
           /\ WellFormed(t, calls, ResultBlock(t.id, g, e, content, status))
  BY DEF CallBlock, ResultBlock, Block, WellFormed, TextLike, ToolBlockId

LEMMA FitsKept ==
    ASSUME NEW t, NEW w, NEW block, PutIn(t, block, w), NEW g, NEW e, Fits(t, g, e),
           block.of = {e}, block.tool = g
    PROVE  Fits(w, g, e)
  BY DEF PutIn, PutAt, Fits

LEMMA CallPuttable ==
    ASSUME NEW calls, NEW t, Good(t, calls), t.open, NEW g \in ToolIds, NEW e \in Nat,
           e \in DOMAIN calls, Tells(t, calls, g, e), Fits(t, g, e), NEW status \in Statuses
    PROVE  Puttable(t, calls, CallBlock(t.id, g, e, status), t.emitted)
  <1> DEFINE block == CallBlock(t.id, g, e, status)
  <1>1. t.id \in Nat /\ t.emitted \in Emissions
    BY DEF Good, Workings
  <1>2. <<>> \in Pieces
    BY DEF Pieces
  <1>3. block \in Blocks
    BY <1>1, <1>2, ToolBlocksTyped
  <1>4. WellFormed(t, calls, block)
    BY ToolBlocksFormed
  <1>5. block.type = "tool_call" /\ block.tool = g /\ block.of = {e}
    BY DEF CallBlock, Block
  <1> HIDE DEF block
  <1>6. Streamed(t.emitted, block) = block
    BY <1>5 DEF Streamed
  <1>7. \A i \in DOMAIN t.blocks :
          OfTools(t.blocks[i], block) =>
             (t.blocks[i].of = block.of <=> t.blocks[i].tool = block.tool)
    BY <1>5 DEF OfTools, Fits
  <1> QED
    BY <1>1, <1>3, <1>4, <1>6, <1>7 DEF Puttable, block

(* Results put while nothing is streamed of the tool, or no longer. *)
LEMMA ResultPuttable ==
    ASSUME NEW calls, NEW t, Good(t, calls), t.open, NEW g \in ToolIds, NEW e \in Nat,
           e \in DOMAIN calls, Tells(t, calls, g, e), Fits(t, g, e), NEW status \in Statuses,
           NEW content \in Pieces, NEW em \in Emissions,
           DOMAIN em = DOMAIN t.emitted \ {g}, \A tool \in DOMAIN em : em[tool] = t.emitted[tool]
    PROVE  Puttable(t, calls, ResultBlock(t.id, g, e, content, status), em)
  <1> DEFINE block == ResultBlock(t.id, g, e, content, status)
  <1>1. t.id \in Nat
    BY DEF Good, Workings
  <1>2. block \in Blocks
    BY <1>1, ToolBlocksTyped
  <1>3. WellFormed(t, calls, block)
    BY ToolBlocksFormed
  <1>4. /\ block.type = "tool_result" /\ block.tool = g /\ block.of = {e}
        /\ block.id = <<t.id, "result", g>>
    BY DEF ResultBlock, Block
  <1> HIDE DEF block
  <1>5. Streamed(em, block) = block
    BY <1>4 DEF Streamed
  <1>6. ASSUME NEW i \in DOMAIN t.blocks
        PROVE  /\ OfTools(t.blocks[i], block) =>
                    (t.blocks[i].of = block.of <=> t.blocks[i].tool = block.tool)
               /\ t.blocks[i].id # block.id =>
                    Streamed(em, t.blocks[i]) = Streamed(t.emitted, t.blocks[i])
    <2>1. OfTools(t.blocks[i], block) =>
             (t.blocks[i].of = block.of <=> t.blocks[i].tool = block.tool)
      BY <1>4 DEF OfTools, Fits
    <2>2. ASSUME t.blocks[i].id # block.id, t.blocks[i].type = "tool_result"
          PROVE  t.blocks[i].tool # g
      <3>1. WellFormed(t, calls, t.blocks[i])
        BY DEF Good, BlocksSound
      <3> QED
        BY <1>4, <2>2, <3>1 DEF WellFormed, TextLike, ToolBlockId
    <2>3. t.blocks[i].id # block.id =>
             Streamed(em, t.blocks[i]) = Streamed(t.emitted, t.blocks[i])
      <3>1. CASE t.blocks[i].type # "tool_result"
        BY <3>1 DEF Streamed
      <3>2. CASE t.blocks[i].type = "tool_result"
        BY <2>2, <3>2 DEF Streamed
      <3> QED
        BY <3>1, <3>2
    <2> QED
      BY <2>1, <2>3
  <1> QED
    BY <1>2, <1>3, <1>5, <1>6 DEF Puttable, block

(* upsertToolCallBlock, once the id is known *)
Called(u, e, status) ==
    LET m == EnsureAssistantMessage([u EXCEPT !.anchor = u.got])
        existing == CallBlocks(m.blocks, u.got)
        of == {e} \union (IF existing = {} THEN {} ELSE m.blocks[Min(existing)].of)
    IN  UpsertBlock(m, Block(ToolBlockId(u, "call", u.got), "tool_call", u.got, of, <<>>, status))

LEMMA CalledKeeps ==
    ASSUME NEW calls, NEW u, Good(u, calls), NEW e \in Nat, e \in DOMAIN calls,
           u.got \in ToolIds, Tells(u, calls, u.got, e), Fits(u, u.got, e), NEW status \in Statuses
    PROVE  LET w == Called(u, e, status)
           IN  /\ Good(w, calls) /\ w.open /\ w.sent # "nothing"
               /\ w.id = u.id /\ w.key = u.key /\ w.emitted = u.emitted /\ w.anchor = u.got
               /\ w.anon = u.anon /\ w.ambiguous = u.ambiguous /\ w.made = u.made /\ w.got = u.got
               /\ PutIn(u, CallBlock(u.id, u.got, e, status), w)
               /\ Fits(w, u.got, e)
  <1> DEFINE v == [u EXCEPT !.anchor = u.got]
             m == EnsureAssistantMessage(v)
             existing == CallBlocks(m.blocks, u.got)
             of == {e} \union (IF existing = {} THEN {} ELSE m.blocks[Min(existing)].of)
             block == CallBlock(u.id, u.got, e, status)
             w == Called(u, e, status)
  <1>1. /\ v \in Workings /\ v.id = u.id /\ v.open = u.open /\ v.blocks = u.blocks /\ v.key = u.key
        /\ v.emitted = u.emitted /\ v.anchor = u.got /\ v.anon = u.anon
        /\ v.ambiguous = u.ambiguous /\ v.made = u.made /\ v.got = u.got
        /\ v.shown = u.shown /\ v.sent = u.sent
    BY DEF Good, Workings
  <1> HIDE DEF v
  <1>2. Good(v, calls)
    <2>1. BlocksSound(v, calls)
      BY <1>1 DEF Good, BlocksSound, WellFormed, Tells, ToolBlockId
    <2>2. Mirrors(v) /\ Unsent(v)
      BY <1>1 DEF Good, Mirrors, Unsent, InTheBrowser
    <2> QED
      BY <1>1, <2>1, <2>2 DEF Good
  <1>3. Good(m, calls) /\ m.open /\ Unmoved(v, m) /\ m.blocks = v.blocks /\ m.emitted = v.emitted
    BY <1>2, EnsureKeeps
  <1> HIDE DEF m
  <1>4. m \in Workings /\ m.blocks \in Seq(Blocks)
    BY <1>3 DEF Good, Workings
  <1>5. Fits(m, u.got, e) /\ Tells(m, calls, u.got, e) /\ m.id = u.id
    BY <1>1, <1>3 DEF Fits, Tells, Unmoved
  <1>6. of = {e}
    <2>1. CASE existing = {}
      BY <2>1
    <2>2. CASE existing # {}
      <3>1. existing \in SUBSET Nat
        BY <1>4 DEF CallBlocks
      <3>2. Min(existing) \in existing
        BY <2>2, <3>1, LeastOfNaturals
      <3>3. m.blocks[Min(existing)].of = {e}
        BY <1>5, <3>2 DEF CallBlocks, Fits, TextLike
      <3> QED
        BY <2>2, <3>3
    <2> QED
      BY <2>1, <2>2
  <1>7. w = UpsertBlock(m, block)
    <2>1. w = UpsertBlock(m, Block(ToolBlockId(u, "call", u.got), "tool_call", u.got, of, <<>>, status))
      BY DEF Called, m, v
    <2> HIDE DEF of
    <2> QED
      BY <1>6, <2>1 DEF ToolBlockId, CallBlock
  <1>8. Puttable(m, calls, block, m.emitted)
    BY <1>3, <1>5, CallPuttable
  <1>9. block \in Blocks /\ block.of = {e} /\ block.tool = u.got
    <2>1. block.of = {e} /\ block.tool = u.got
      BY DEF CallBlock, Block
    <2> QED
      BY <1>8, <2>1 DEF Puttable
  <1> HIDE DEF block, w
  <1>10. w = PutOf(m, block, m.emitted)
    BY <1>4, <1>7, <1>9, UpsertIsPut
  <1>11. /\ Good(w, calls) /\ w.open /\ w.sent # "nothing" /\ Unmoved(m, w)
         /\ w.emitted = m.emitted /\ PutIn(m, block, w)
    BY <1>3, <1>8, <1>10, PutKeeps
  <1>12. Fits(w, u.got, e)
    BY <1>5, <1>9, <1>11, FitsKept
  <1>13. PutIn(u, block, w)
    BY <1>1, <1>3, <1>11 DEF PutIn
  <1> QED
    BY <1>1, <1>3, <1>11, <1>12, <1>13 DEF Unmoved, w, block

-------------------------------------------------------------------------------
(* Results that are streamed *)

LEMMA MaxOfTwo ==
    ASSUME NEW m \in Nat, NEW n \in Nat
    PROVE  Max({m, n}) = IF n > m THEN n ELSE m
  BY DEF Max

(* The first n pieces of an execution, and those after the first m *)
Pieced(e, n) == [i \in 1..n |-> <<e, i>>]
PiecedFrom(e, m, n) == [i \in 1..(n - m) |-> <<e, m + i>>]

LEMMA PiecesJoin ==
    ASSUME NEW e \in Nat, NEW m \in Nat, NEW n \in Nat, m < n
    PROVE  /\ Pieced(e, m) \in Pieces /\ PiecedFrom(e, m, n) \in Pieces /\ Pieced(e, n) \in Pieces
           /\ Pieced(e, m) \o PiecedFrom(e, m, n) = Pieced(e, n)
  <1> DEFINE S == Nat \X Nat
  <1>1. \A i \in Nat : <<e, i>> \in S /\ <<e, m + i>> \in S
    OBVIOUS
  <1>2. Pieced(e, m) \in [1..m -> S] /\ PiecedFrom(e, m, n) \in [1..(n - m) -> S]
        /\ Pieced(e, n) \in [1..n -> S]
    BY <1>1 DEF Pieced, PiecedFrom
  <1>3. Pieced(e, m) \in Seq(S) /\ PiecedFrom(e, m, n) \in Seq(S) /\ Pieced(e, n) \in Seq(S)
        /\ Len(Pieced(e, m)) = m /\ Len(PiecedFrom(e, m, n)) = n - m /\ Len(Pieced(e, n)) = n
    <2>1. n - m \in Nat
      OBVIOUS
    <2> HIDE DEF S
    <2> QED
      BY <1>2, <2>1, LenProperties
  <1>4. Pieced(e, m) \o PiecedFrom(e, m, n) = Pieced(e, n)
    <2> DEFINE joined == Pieced(e, m) \o PiecedFrom(e, m, n)
    <2>1. joined \in Seq(S) /\ Len(joined) = n
      <3> HIDE DEF S
      <3> QED
        BY <1>3
    <2>2. ASSUME NEW i \in 1..n
          PROVE  joined[i] = Pieced(e, n)[i]
      <3>1. joined[i] = IF i <= m THEN Pieced(e, m)[i] ELSE PiecedFrom(e, m, n)[i - m]
        <4> HIDE DEF S
        <4> QED
          BY <1>3
      <3>2. Pieced(e, n)[i] = <<e, i>>
        BY DEF Pieced
      <3>3. CASE i <= m
        <4>1. i \in 1..m
          BY <3>3
        <4> QED
          BY <3>1, <3>2, <3>3, <4>1 DEF Pieced
      <3>4. CASE ~(i <= m)
        <4>1. i - m \in 1..(n - m) /\ m + (i - m) = i
          BY <3>4
        <4>2. PiecedFrom(e, m, n)[i - m] = <<e, m + (i - m)>>
          BY <4>1 DEF PiecedFrom
        <4> QED
          BY <3>1, <3>2, <3>4, <4>1, <4>2
      <3> QED
        BY <3>3, <3>4
    <2> HIDE DEF joined, S
    <2> QED
      BY <1>3, <2>1, <2>2, SeqEqual DEF joined
  <1> QED
    BY <1>3, <1>4 DEF Pieces

LEMMA PutTyped ==
    ASSUME NEW em \in Emissions, NEW g \in ToolIds, NEW n \in 0..MaxChunks
    PROVE  Put(em, g, n) \in Emissions
  <1>1. PICK T \in SUBSET ToolIds : em \in [T -> 0..MaxChunks]
    BY DEF Emissions
  <1>2. Put(em, g, n) \in [T \union {g} -> 0..MaxChunks]
    BY <1>1 DEF Put
  <1>3. T \union {g} \in SUBSET ToolIds
    OBVIOUS
  <1> QED
    BY <1>1, <1>2, <1>3 DEF Put, Emissions

(* streamToolResultDelta, once the result has a block *)
From(b, g) == IF g \in DOMAIN b.emitted THEN b.emitted[g] ELSE 0

Streaming(b, g, e, n) ==
    LET kept == [b EXCEPT !.emitted = Put(b.emitted, g, Max({From(b, g), n}))]
    IN  IF n > From(b, g)
        THEN Delta(kept, <<b.id, "result", g>>, "tool_result", PiecedFrom(e, From(b, g), n))
        ELSE kept

LEMMA StreamKeeps ==
    ASSUME NEW calls, NEW b, Good(b, calls), b.open, b.sent # "nothing",
           NEW g \in ToolIds, NEW e \in Nat, NEW n \in 1..MaxChunks,
           NEW k \in DOMAIN b.blocks, b.blocks[k].type = "tool_result", b.blocks[k].tool = g,
           b.blocks[k].of = {e}, g \notin DOMAIN b.emitted => b.blocks[k].content = <<>>
    PROVE  LET w == Streaming(b, g, e, n)
           IN  /\ Good(w, calls) /\ w.open /\ w.sent # "nothing" /\ Unmoved(b, w)
               /\ w.blocks = b.blocks /\ DOMAIN w.emitted = DOMAIN b.emitted \union {g}
  <1> DEFINE from == From(b, g)
             last == IF n > from THEN n ELSE from
             em == Put(b.emitted, g, last)
             kept == [b EXCEPT !.emitted = em]
             id == <<b.id, "result", g>>
             w == Streaming(b, g, e, n)
  <1>1. /\ b \in Workings /\ b.blocks \in Seq(Blocks) /\ b.id \in Nat /\ b.emitted \in Emissions
        /\ b.shown \in Copies /\ b.blocks[k] \in Blocks
        /\ BlocksSound(b, calls) /\ Mirrors(b)
        /\ WellFormed(b, calls, b.blocks[k])
    BY DEF Good, Workings, BlocksSound
  <1>2. MaxChunks \in Nat
    BY LiveTurnAssumption
  <1>3. from \in 0..MaxChunks
    <2>1. PICK T \in SUBSET ToolIds : b.emitted \in [T -> 0..MaxChunks]
      BY <1>1 DEF Emissions
    <2> QED
      BY <1>2, <2>1 DEF From
  <1>4. last \in 0..MaxChunks /\ from \in Nat /\ n \in Nat /\ last \in Nat
    BY <1>2, <1>3
  <1> HIDE DEF from, last
  <1>5. /\ em \in Emissions /\ DOMAIN em = DOMAIN b.emitted \union {g} /\ em[g] = last
        /\ \A x \in DOMAIN b.emitted \ {g} : em[x] = b.emitted[x]
    <2>1. b.emitted \in Emissions /\ last \in 0..MaxChunks
      BY <1>1, <1>4
    <2>2. em \in Emissions
      BY <2>1, PutTyped, Zenon
    <2> QED
      BY <2>2 DEF Put
  <1>6. Max({from, n}) = last
    BY <1>4, MaxOfTwo DEF last
  <1> HIDE DEF em
  <1>7. w = IF n > from THEN Delta(kept, id, "tool_result", PiecedFrom(e, from, n)) ELSE kept
    BY <1>6 DEF Streaming, from, em
  <1> HIDE DEF w
  <1>8. /\ kept \in Workings /\ kept.emitted = em /\ kept.blocks = b.blocks /\ kept.id = b.id
        /\ kept.open /\ kept.shown = b.shown /\ kept.sent = b.sent /\ Unmoved(b, kept)
        /\ kept.made = b.made
    BY <1>1, <1>5 DEF Workings, Unmoved
  <1> HIDE DEF kept
  <1>9. b.blocks[k].id = id /\ id \in BlockIds
    <2>1. b.blocks[k].id = id
      BY <1>1 DEF WellFormed, TextLike, ToolBlockId
    <2> QED
      BY <1>1, <2>1 DEF Blocks
  <1>10. \A i \in DOMAIN b.blocks :
           b.blocks[i].type = "tool_result" /\ b.blocks[i].tool = g => b.blocks[i].id = id
    BY <1>1 DEF BlocksSound, WellFormed, TextLike, ToolBlockId
  <1> HIDE DEF id
  <1>11. \A i \in DOMAIN b.blocks : i # k => ~(b.blocks[i].type = "tool_result" /\ b.blocks[i].tool = g)
    <2>1. ASSUME NEW i \in DOMAIN b.blocks, b.blocks[i].type = "tool_result", b.blocks[i].tool = g
          PROVE  i = k
      <3>1. b.blocks[i].id = id
        BY <1>10, <2>1
      <3> QED
        BY <1>1, <1>9, <3>1 DEF BlocksSound
    <2> QED
      BY <2>1
  <1>12. /\ w \in Workings /\ Unmoved(kept, w) /\ w.open /\ w.blocks = b.blocks /\ w.emitted = em
         /\ w.sent # "nothing" /\ (w.sent = "whole" => b.sent = "whole")
         /\ ~(n > from) => w.shown = b.shown
         /\ n > from => \A l \in DOMAIN b.shown.blocks :
              b.shown.id = b.id /\ WithId(b.shown.blocks, id) = {l}
                => w.shown = [id |-> b.id,
                              blocks |-> Grow(b.shown.blocks, l, PiecedFrom(e, from, n))]
    <2>1. CASE n > from
      <3> DEFINE delta == PiecedFrom(e, from, n)
                 type == "tool_result"
                 d == Delta(kept, id, type, delta)
      <3>1. delta \in Pieces
        BY <1>4, <2>1, PiecesJoin
      <3>2. type \in TextLike \union {"tool_call", "tool_result"}
        OBVIOUS
      <3>3. w = d
        BY <1>7, <2>1
      <3> HIDE DEF delta, type
      <3>4. Extends(kept, id, delta, d)
        <4>1. kept \in Workings /\ id \in BlockIds
          BY <1>8, <1>9
        <4> QED
          BY <3>1, <3>2, <4>1, DeltaFields
      <3> HIDE DEF d
      <3> QED
        BY <1>8, <2>1, <3>3, <3>4 DEF delta, Extends
    <2>2. CASE ~(n > from)
      <3>1. w = kept
        BY <1>7, <2>2
      <3> QED
        BY <1>8, <2>2, <3>1 DEF Unmoved
    <2> QED
      BY <2>1, <2>2
  <1>13. w.id = b.id /\ w.made = b.made /\ Unmoved(b, w)
    BY <1>8, <1>12 DEF Unmoved
  <1>14. BlocksSound(w, calls)
    <2>1. \A c : WellFormed(b, calls, c) => WellFormed(w, calls, c)
      BY <1>13 DEF WellFormed, Tells, ToolBlockId
    <2>2. \A tool \in DOMAIN w.emitted : Results(w.blocks, tool) # {}
      <3>1. Results(b.blocks, g) # {}
        BY DEF Results
      <3> QED
        BY <1>1, <1>5, <1>12, <3>1 DEF BlocksSound
    <2> QED
      BY <1>1, <1>12, <2>1, <2>2 DEF BlocksSound
  <1>15. Mirrors(w)
    <2> SUFFICES ASSUME ~missed \/ w.sent = "whole"
                 PROVE  w.shown = [id |-> w.id, blocks |-> InTheBrowser(w)]
      BY DEF Mirrors
    <2> DEFINE shown == InTheBrowser(b)
               mine == [b.blocks[k] EXCEPT !.content = Pieced(e, from)]
               grownOne == [b.blocks[k] EXCEPT !.content = Pieced(e, last)]
    <2>1. b.shown = [id |-> b.id, blocks |-> shown]
      BY <1>1, <1>12 DEF Mirrors
    <2>2. /\ DOMAIN shown = DOMAIN b.blocks
          /\ \A i \in DOMAIN b.blocks : shown[i] = Streamed(b.emitted, b.blocks[i])
      BY DEF InTheBrowser
    <2>3. shown \in Seq(Blocks)
      BY <1>1, <2>1 DEF Copies
    <2> HIDE DEF shown
    <2>4. (CHOOSE x \in {e} : TRUE) = e
      OBVIOUS
    <2>5. shown[k] = mine
      <3>1. CASE g \in DOMAIN b.emitted
        <4>1. Streamed(b.emitted, b.blocks[k]) =
                [b.blocks[k] EXCEPT !.content =
                    [i \in 1..b.emitted[g] |-> <<CHOOSE x \in {e} : TRUE, i>>]]
          BY <3>1 DEF Streamed
        <4>2. from = b.emitted[g]
          BY <3>1 DEF from, From
        <4> QED
          BY <2>2, <2>4, <4>1, <4>2 DEF Pieced
      <3>2. CASE g \notin DOMAIN b.emitted
        <4>1. Streamed(b.emitted, b.blocks[k]) = b.blocks[k]
          BY <3>2 DEF Streamed
        <4>2. from = 0
          BY <3>2 DEF from, From
        <4>3. Pieced(e, 0) = <<>>
          BY DEF Pieced
        <4>4. [b.blocks[k] EXCEPT !.content = <<>>] = b.blocks[k]
          BY <1>1, <3>2 DEF Blocks
        <4> QED
          BY <2>2, <4>1, <4>2, <4>3, <4>4
      <3> QED
        BY <3>1, <3>2
    <2>6. Streamed(em, b.blocks[k]) = grownOne
      <3>1. Streamed(em, b.blocks[k]) =
                [b.blocks[k] EXCEPT !.content =
                    [i \in 1..em[g] |-> <<CHOOSE x \in {e} : TRUE, i>>]]
        BY <1>5 DEF Streamed
      <3> QED
        BY <1>5, <2>4, <3>1 DEF Pieced
    <2>7. \A i \in DOMAIN b.blocks : i # k => Streamed(em, b.blocks[i]) = shown[i]
      <3>1. ASSUME NEW i \in DOMAIN b.blocks, i # k
            PROVE  Streamed(em, b.blocks[i]) = Streamed(b.emitted, b.blocks[i])
        BY <1>5, <1>11, <3>1 DEF Streamed
      <3> QED
        BY <2>2, <3>1
    <2> DEFINE later == IF n > from THEN Grow(shown, k, PiecedFrom(e, from, n)) ELSE shown
    <2>8. w.shown = [id |-> b.id, blocks |-> later]
      <3>1. WithId(shown, id) = {k}
        <4>1. \A i \in DOMAIN b.blocks : shown[i].id = b.blocks[i].id
          BY <1>1, <2>2, StreamedAlike
        <4> QED
          BY <1>1, <1>9, <2>2, <4>1 DEF WithId, BlocksSound
      <3>2. CASE n > from
        <4>1. w.shown = [id |-> b.id,
                         blocks |-> Grow(b.shown.blocks, k, PiecedFrom(e, from, n))]
          BY <1>12, <2>1, <2>2, <3>1, <3>2
        <4> QED
          BY <2>1, <3>2, <4>1
      <3>3. CASE ~(n > from)
        BY <1>12, <2>1, <3>3
      <3> QED
        BY <3>2, <3>3
    <2>9. /\ later \in Seq(Blocks) /\ DOMAIN later = DOMAIN b.blocks
          /\ later[k] = grownOne
          /\ \A i \in DOMAIN b.blocks : i # k => later[i] = shown[i]
      <3>1. CASE n > from
        <4> DEFINE content == shown[k].content \o PiecedFrom(e, from, n)
        <4>1. shown[k].content = Pieced(e, from)
          BY <1>1, <2>5 DEF Blocks
        <4>2. content = Pieced(e, n) /\ content \in Pieces
          <5>1. from < n
            BY <1>4, <3>1
          <5>2. /\ Pieced(e, n) \in Pieces
                /\ Pieced(e, from) \o PiecedFrom(e, from, n) = Pieced(e, n)
            BY <1>4, <5>1, PiecesJoin
          <5> QED
            BY <4>1, <5>2
        <4>3. later = [shown EXCEPT ![k].content = content]
          BY <3>1 DEF Grow
        <4> HIDE DEF content, later
        <4>4. /\ later \in Seq(Blocks) /\ DOMAIN later = DOMAIN shown
              /\ \A i \in DOMAIN shown \ {k} : later[i] = shown[i]
              /\ later[k] = [shown[k] EXCEPT !.content = content]
          BY <2>2, <2>3, <4>2, <4>3, GrownTyped
        <4>5. [mine EXCEPT !.content = content] = grownOne
          <5>1. last = n
            BY <3>1 DEF last
          <5> QED
            BY <1>1, <4>2, <5>1 DEF Blocks
        <4> QED
          BY <2>2, <2>5, <4>4, <4>5
      <3>2. CASE ~(n > from)
        <4>1. later = shown /\ last = from
          BY <3>2 DEF last
        <4> QED
          BY <2>2, <2>3, <2>5, <4>1
      <3> QED
        BY <3>1, <3>2
    <2>10. later = [i \in DOMAIN later |-> later[i]]
      <3>1. later \in [DOMAIN later -> Blocks]
        BY <2>9
      <3> QED
        BY <3>1
    <2> HIDE DEF later, mine, grownOne
    <2>11. InTheBrowser(w) = [i \in DOMAIN b.blocks |-> Streamed(em, b.blocks[i])]
      BY <1>12 DEF InTheBrowser
    <2>12. \A i \in DOMAIN b.blocks : later[i] = Streamed(em, b.blocks[i])
      BY <2>6, <2>7, <2>9
    <2> QED
      BY <1>13, <2>8, <2>9, <2>10, <2>11, <2>12
  <1>16. Good(w, calls)
    BY <1>12, <1>13, <1>14, <1>15 DEF Good, Unsent
  <1> QED
    BY <1>5, <1>12, <1>13, <1>16 DEF w

-------------------------------------------------------------------------------
(* Handlers of an execution whose tool is known *)

(* Nothing changes of what belongs to other executions, or of the texts; the  *)
(* blocks of e stay where they are, and no other's are new.                   *)
Others(t, w, e) ==
    /\ \A i \in DOMAIN t.blocks :
        /\ i \in DOMAIN w.blocks
        /\ t.blocks[i].of # {e} => w.blocks[i] = t.blocks[i]
        /\ t.blocks[i].of = {e} => /\ w.blocks[i].of = {e} /\ w.blocks[i].type = t.blocks[i].type
                                   /\ w.blocks[i].tool = t.blocks[i].tool
    /\ \A i \in DOMAIN w.blocks : i \notin DOMAIN t.blocks => w.blocks[i].of = {e}

HasCall(w, g, e, status) == \E k \in DOMAIN w.blocks : w.blocks[k] = CallBlock(w.id, g, e, status)

HasResult(w, g, e, status) ==
    \E k \in DOMAIN w.blocks : w.blocks[k] = ResultBlock(w.id, g, e, Final, status)

LEMMA PutOthers ==
    ASSUME NEW calls, NEW t, Good(t, calls), NEW g \in ToolIds, NEW e, Fits(t, g, e),
           NEW block \in Blocks, WellFormed(t, calls, block),
           block.type \notin TextLike, block.of = {e}, block.tool = g,
           NEW w, w.id = t.id, PutIn(t, block, w)
    PROVE  /\ Others(t, w, e)
           /\ block.type = "tool_result" =>
                \A status : HasCall(t, g, e, status) => HasCall(w, g, e, status)
  <1>1. PICK k \in Nat : /\ PutAt(t.blocks, block, k, w.blocks)
                         /\ k \in DOMAIN t.blocks => t.blocks[k].id = block.id
    BY DEF PutIn
  <1>2. k \in DOMAIN t.blocks => t.blocks[k].type = block.type /\ t.blocks[k].tool = g
    <2>1. k \in DOMAIN t.blocks => t.blocks[k] \in Blocks /\ WellFormed(t, calls, t.blocks[k])
      BY DEF Good, Workings, BlocksSound
    <2> QED
      BY <1>1, <2>1, IdTells
  <1>3. Others(t, w, e)
    BY <1>1, <1>2 DEF Others, PutAt, Fits
  <1>4. ASSUME block.type = "tool_result", NEW status, HasCall(t, g, e, status)
        PROVE  HasCall(w, g, e, status)
    <2>1. PICK i \in DOMAIN t.blocks : t.blocks[i] = CallBlock(t.id, g, e, status)
      BY <1>4 DEF HasCall
    <2>2. i # k
      BY <1>2, <1>4, <2>1 DEF CallBlock, Block
    <2> QED
      BY <1>1, <2>1, <2>2 DEF PutAt, HasCall
  <1> QED
    BY <1>3, <1>4

LEMMA OthersCompose ==
    ASSUME NEW t, NEW u, NEW w, NEW e, Others(t, u, e), Others(u, w, e)
    PROVE  Others(t, w, e)
  BY DEF Others

(* toolCallId gets g, unless the step is the start of a tool without an id. *)
Resolves(t, tool, g) == IF tool # None THEN g = tool ELSE ~t.ambiguous /\ t.anon = g

Getting(t, g) == [t EXCEPT !.got = g]

LEMMA GottenKeeps ==
    ASSUME NEW calls, NEW t, Good(t, calls), NEW g \in ToolIds \union {None}
    PROVE  LET u == Getting(t, g)
           IN  /\ Good(u, calls) /\ u.got = g
               /\ u.id = t.id /\ u.open = t.open /\ u.blocks = t.blocks /\ u.key = t.key
               /\ u.emitted = t.emitted /\ u.anchor = t.anchor /\ u.anon = t.anon
               /\ u.ambiguous = t.ambiguous /\ u.made = t.made
               /\ u.shown = t.shown /\ u.sent = t.sent
  <1> DEFINE u == Getting(t, g)
  <1>1. t \in Workings
    BY DEF Good
  <1>2. /\ u \in Workings /\ u.got = g
        /\ u.id = t.id /\ u.open = t.open /\ u.blocks = t.blocks /\ u.key = t.key
        /\ u.emitted = t.emitted /\ u.anchor = t.anchor /\ u.anon = t.anon
        /\ u.ambiguous = t.ambiguous /\ u.made = t.made
        /\ u.shown = t.shown /\ u.sent = t.sent
    BY <1>1 DEF Workings, Getting
  <1> HIDE DEF u
  <1>3. BlocksSound(u, calls)
    BY <1>2 DEF Good, BlocksSound, WellFormed, Tells, ToolBlockId
  <1>4. Mirrors(u) /\ Unsent(u)
    BY <1>2 DEF Good, Mirrors, Unsent, InTheBrowser
  <1> QED
    BY <1>2, <1>3, <1>4 DEF Good, u

LEMMA GotAgain ==
    ASSUME NEW t \in Workings
    PROVE  Getting(t, t.got) = t
  BY DEF Workings, Getting

LEMMA Resolution ==
    ASSUME NEW t, NEW tool, NEW g \in ToolIds, Resolves(t, tool, g),
           NEW step, step # "start" \/ tool # None
    PROVE  ToolCallId(t, tool, step) = Getting(t, g)
  <1>1. g # None
    BY LiveTurnAssumption
  <1>2. CASE tool # None
    BY <1>2 DEF Resolves, ToolCallId, Getting
  <1>3. CASE tool = None
    BY <1>1, <1>3 DEF Resolves, ToolCallId, Getting
  <1> QED
    BY <1>2, <1>3

(* What a handler leaves alone of a projection *)
Stays(t, w) ==
    /\ w.id = t.id /\ w.key = t.key /\ w.anon = t.anon /\ w.ambiguous = t.ambiguous
    /\ w.made = t.made

Ready(w, calls) == Good(w, calls) /\ w.open /\ w.sent # "nothing"

LEMMA CalledHas ==
    ASSUME NEW calls, NEW u, Good(u, calls), NEW e \in Nat, e \in DOMAIN calls,
           u.got \in ToolIds, Tells(u, calls, u.got, e), Fits(u, u.got, e), NEW status \in Statuses
    PROVE  LET w == Called(u, e, status)
           IN  /\ Ready(w, calls) /\ Stays(u, w) /\ w.emitted = u.emitted
               /\ w.anchor = u.got /\ w.got = u.got
               /\ Others(u, w, e) /\ HasCall(w, u.got, e, status) /\ Fits(w, u.got, e)
  <1> DEFINE w == Called(u, e, status)
             block == CallBlock(u.id, u.got, e, status)
  <1>1. /\ Good(w, calls) /\ w.open /\ w.sent # "nothing"
        /\ w.id = u.id /\ w.key = u.key /\ w.emitted = u.emitted /\ w.anchor = u.got
        /\ w.anon = u.anon /\ w.ambiguous = u.ambiguous /\ w.made = u.made /\ w.got = u.got
        /\ PutIn(u, block, w)
        /\ Fits(w, u.got, e)
    BY CalledKeeps
  <1> HIDE DEF w
  <1>2. block \in Blocks
    <2>1. u.id \in Nat
      BY DEF Good, Workings
    <2>2. <<>> \in Pieces
      BY DEF Pieces
    <2> QED
      BY <2>1, <2>2, ToolBlocksTyped
  <1>3. WellFormed(u, calls, block)
    BY ToolBlocksFormed
  <1>4. block.type \notin TextLike /\ block.of = {e} /\ block.tool = u.got
    BY DEF CallBlock, Block, TextLike
  <1> HIDE DEF block
  <1>5. Others(u, w, e)
    BY <1>1, <1>2, <1>3, <1>4, PutOthers
  <1>6. HasCall(w, u.got, e, status)
    BY <1>1 DEF PutIn, PutAt, HasCall, block
  <1> QED
    BY <1>1, <1>5, <1>6 DEF Ready, Stays, w

(* upsertToolCallBlock *)
LEMMA CallKnown ==
    ASSUME NEW calls, NEW t, Good(t, calls), NEW e \in Nat, e \in DOMAIN calls,
           NEW tool, NEW g \in ToolIds, Resolves(t, tool, g),
           Tells(t, calls, g, e), Fits(t, g, e),
           NEW status \in Statuses, status = "pending" => tool # None
    PROVE  LET w == UpsertToolCallBlock(t, tool, e, status)
           IN  /\ Ready(w, calls) /\ Stays(t, w) /\ w.emitted = t.emitted
               /\ w.anchor = g /\ w.got = g
               /\ Others(t, w, e) /\ HasCall(w, g, e, status) /\ Fits(w, g, e)
  <1> DEFINE u == Getting(t, g)
             w == UpsertToolCallBlock(t, tool, e, status)
  <1>1. ToolCallId(t, tool, IF status = "pending" THEN "start" ELSE "update") = u
    BY Resolution
  <1>2. /\ Good(u, calls) /\ u.got = g
        /\ u.id = t.id /\ u.open = t.open /\ u.blocks = t.blocks /\ u.key = t.key
        /\ u.emitted = t.emitted /\ u.anon = t.anon
        /\ u.ambiguous = t.ambiguous /\ u.made = t.made
    BY GottenKeeps
  <1> HIDE DEF u
  <1>3. w = Called(u, e, status)
    <2>1. u.got # None
      BY <1>2, LiveTurnAssumption
    <2> QED
      BY <1>1, <2>1 DEF UpsertToolCallBlock, Called
  <1>4. Tells(u, calls, u.got, e) /\ Fits(u, u.got, e)
    BY <1>2 DEF Tells, Fits
  <1> HIDE DEF w
  <1>5. /\ Ready(w, calls) /\ Stays(u, w) /\ w.emitted = u.emitted
        /\ w.anchor = u.got /\ w.got = u.got
        /\ Others(u, w, e) /\ HasCall(w, u.got, e, status) /\ Fits(w, u.got, e)
    BY <1>2, <1>3, <1>4, CalledHas
  <1> QED
    BY <1>2, <1>5 DEF Stays, Others, w

(* The block of a tool's result, put while nothing is streamed of it *)
Resulting(t, calls, g, e, block, w) ==
    /\ Ready(w, calls) /\ Unmoved(t, w)
    /\ Others(t, w, e) /\ Fits(w, g, e)
    /\ \E k \in DOMAIN w.blocks : w.blocks[k] = block
    /\ \A s : HasCall(t, g, e, s) => HasCall(w, g, e, s)

LEMMA ResultHas ==
    ASSUME NEW calls, NEW t, Ready(t, calls), NEW g \in ToolIds, NEW e \in Nat,
           e \in DOMAIN calls, Tells(t, calls, g, e), Fits(t, g, e), NEW status \in Statuses,
           NEW content \in Pieces, NEW em \in Emissions,
           DOMAIN em = DOMAIN t.emitted \ {g}, \A tool \in DOMAIN em : em[tool] = t.emitted[tool],
           NEW block, block = ResultBlock(t.id, g, e, content, status)
    PROVE  Resulting(t, calls, g, e, block, PutOf(t, block, em))
  <1> DEFINE w == PutOf(t, block, em)
  <1>1. Good(t, calls) /\ t.open
    BY DEF Ready
  <1>2. Puttable(t, calls, block, em)
    BY <1>1, ResultPuttable
  <1>3. /\ Good(w, calls) /\ w.open /\ w.sent # "nothing"
        /\ Unmoved(t, w) /\ w.emitted = em /\ PutIn(t, block, w)
    BY <1>1, <1>2, PutKeeps
  <1> HIDE DEF w
  <1>4. /\ block \in Blocks /\ WellFormed(t, calls, block)
    BY <1>2 DEF Puttable
  <1>5. block.type = "tool_result" /\ block.type \notin TextLike /\ block.of = {e} /\ block.tool = g
    BY DEF ResultBlock, Block, TextLike
  <1>6. Others(t, w, e) /\ \A s : HasCall(t, g, e, s) => HasCall(w, g, e, s)
    <2>1. w.id = t.id
      BY <1>3 DEF Unmoved
    <2> QED
      BY <1>1, <1>3, <1>4, <1>5, <2>1, PutOthers
  <1>7. Fits(w, g, e)
    BY <1>3, <1>5, FitsKept
  <1>8. \E k \in DOMAIN w.blocks : w.blocks[k] = block
    BY <1>3 DEF PutIn, PutAt
  <1> QED
    BY <1>3, <1>6, <1>7, <1>8 DEF Resulting, Ready, w

(* streamToolResultDelta *)
LEMMA StreamKnown ==
    ASSUME NEW calls, NEW t, Ready(t, calls), NEW e \in Nat, e \in DOMAIN calls,
           NEW tool, NEW g \in ToolIds, Resolves(t, tool, g),
           Tells(t, calls, g, e), Fits(t, g, e), NEW n \in 1..MaxChunks
    PROVE  LET w == StreamToolResultDelta(t, tool, e, n)
           IN  /\ Ready(w, calls) /\ Stays(t, w) /\ w.anchor = t.anchor
               /\ Others(t, w, e)
               /\ \A s : HasCall(t, g, e, s) => HasCall(w, g, e, s)
  <1> DEFINE u == Getting(t, g)
             w == StreamToolResultDelta(t, tool, e, n)
             block == ResultBlock(t.id, g, e, <<>>, "completed")
             b == IF g \in DOMAIN u.emitted THEN u
                  ELSE UpsertBlock(EnsureAssistantMessage(u), block)
  <1>1. ToolCallId(t, tool, "update") = u
    BY Resolution
  <1>2. /\ Ready(u, calls) /\ u.got = g /\ Stays(t, u) /\ u.blocks = t.blocks
        /\ u.emitted = t.emitted /\ u.anchor = t.anchor /\ u.open
    BY GottenKeeps DEF Ready, Stays
  <1> HIDE DEF u
  <1>3. u.id = t.id /\ u.id \in Nat /\ u.emitted \in Emissions /\ u \in Workings
    BY <1>2 DEF Ready, Stays, Good, Workings
  <1>4. Tells(u, calls, g, e) /\ Fits(u, g, e)
    BY <1>2 DEF Tells, Fits, Stays
  <1>5. EnsureAssistantMessage(u) = u
    BY <1>2 DEF EnsureAssistantMessage
  <1>6. b.emitted = u.emitted /\ w = Streaming(b, g, e, n)
    <2>1. b.id = u.id /\ b.emitted = u.emitted
      <3>1. CASE g \in DOMAIN u.emitted
        BY <3>1
      <3>2. CASE g \notin DOMAIN u.emitted
        BY <1>3, <1>5, <3>2 DEF UpsertBlock, Emit, Workings
      <3> QED
        BY <3>1, <3>2
    <2>2. g # None
      BY LiveTurnAssumption
    <2> DEFINE from == IF g \notin DOMAIN u.emitted THEN 0 ELSE u.emitted[g]
               c == IF ~(g \notin DOMAIN u.emitted) THEN u
                    ELSE UpsertBlock(EnsureAssistantMessage(u),
                                     Block(ToolBlockId(u, "result", g), "tool_result", g, {e},
                                           <<>>, "completed"))
    <2>3. c = b
      BY <1>3 DEF ToolBlockId, ResultBlock
    <2>4. from = From(b, g)
      BY <2>1 DEF From
    <2>5. w = IF n > from
              THEN Delta([c EXCEPT !.emitted = Put(c.emitted, g, Max({from, n}))],
                         ToolBlockId(u, "result", g), "tool_result", PiecedFrom(e, from, n))
              ELSE [c EXCEPT !.emitted = Put(c.emitted, g, Max({from, n}))]
      BY <1>1, <1>2, <2>2 DEF StreamToolResultDelta, PiecedFrom
    <2> HIDE DEF from, c, b
    <2> QED
      BY <2>1, <2>3, <2>4, <2>5 DEF Streaming, ToolBlockId
  <1>7. /\ Ready(b, calls) /\ Unmoved(u, b)
        /\ Others(u, b, e) /\ Fits(b, g, e)
        /\ \A s : HasCall(u, g, e, s) => HasCall(b, g, e, s)
        /\ g \notin DOMAIN u.emitted => \E k \in DOMAIN b.blocks : b.blocks[k] = block
    <2>1. CASE g \in DOMAIN u.emitted
      <3>1. b = u
        BY <2>1
      <3>2. Others(u, u, e)
        BY DEF Others
      <3> HIDE DEF b
      <3> QED
        BY <1>2, <1>4, <2>1, <3>1, <3>2 DEF Unmoved
    <2>2. CASE g \notin DOMAIN u.emitted
      <3>1. <<>> \in Pieces /\ "completed" \in Statuses
        BY DEF Pieces, Statuses
      <3>2. block \in Blocks /\ block = ResultBlock(u.id, g, e, <<>>, "completed")
        BY <1>3, <3>1, ToolBlocksTyped
      <3>3. b = PutOf(u, block, u.emitted)
        <4>1. b = UpsertBlock(u, block)
          BY <1>5, <2>2
        <4> HIDE DEF b, block
        <4> QED
          BY <1>3, <3>2, <4>1, UpsertIsPut
      <3>4. DOMAIN u.emitted = DOMAIN u.emitted \ {g}
        BY <2>2
      <3> HIDE DEF b, block
      <3> DEFINE p == PutOf(u, block, u.emitted)
      <3>5. Resulting(u, calls, g, e, block, p)
        <4>1. \A x \in DOMAIN u.emitted : u.emitted[x] = u.emitted[x]
          OBVIOUS
        <4>2. Ready(u, calls) /\ u.emitted \in Emissions
          BY <1>2, <1>3
        <4> QED
          BY <1>4, <3>1, <3>2, <3>4, <4>1, <4>2, ResultHas, Zenon
      <3> HIDE DEF p
      <3> QED
        BY <3>3, <3>5 DEF p, Resulting
    <2> QED
      BY <2>1, <2>2
  <1> HIDE DEF w, b
  <1>8. PICK k \in DOMAIN b.blocks :
            /\ b.blocks[k].type = "tool_result" /\ b.blocks[k].tool = g /\ b.blocks[k].of = {e}
            /\ g \notin DOMAIN b.emitted => b.blocks[k].content = <<>>
    <2>1. CASE g \in DOMAIN u.emitted
      <3>1. PICK k \in DOMAIN b.blocks : b.blocks[k].type = "tool_result" /\ b.blocks[k].tool = g
        BY <1>6, <1>7, <2>1 DEF Ready, Good, BlocksSound, Results
      <3>2. b.blocks[k].of = {e}
        BY <1>7, <3>1 DEF Fits, TextLike
      <3> QED
        BY <1>6, <2>1, <3>1, <3>2
    <2>2. CASE g \notin DOMAIN u.emitted
      <3>1. block.type = "tool_result" /\ block.tool = g /\ block.of = {e} /\ block.content = <<>>
        BY DEF ResultBlock, Block
      <3> HIDE DEF block
      <3> QED
        BY <1>7, <2>2, <3>1
    <2> QED
      BY <2>1, <2>2
  <1>9. /\ Good(w, calls) /\ w.open /\ w.sent # "nothing" /\ Unmoved(b, w) /\ w.blocks = b.blocks
    <2>1. Good(b, calls) /\ b.open /\ b.sent # "nothing"
      BY <1>7 DEF Ready
    <2> DEFINE d == Streaming(b, g, e, n)
    <2>2. /\ Good(d, calls) /\ d.open /\ d.sent # "nothing" /\ Unmoved(b, d) /\ d.blocks = b.blocks
      BY <1>8, <2>1, StreamKeeps
    <2> HIDE DEF d
    <2> QED
      BY <1>6, <2>2 DEF d
  <1>10. Others(t, w, e)
    BY <1>2, <1>7, <1>9 DEF Others
  <1>11. \A s : HasCall(t, g, e, s) => HasCall(w, g, e, s)
    BY <1>2, <1>3, <1>7, <1>9 DEF HasCall, Unmoved
  <1>12. Stays(t, w) /\ w.anchor = t.anchor
    BY <1>2, <1>7, <1>9 DEF Stays, Unmoved
  <1> QED
    BY <1>9, <1>10, <1>11, <1>12 DEF Ready, w

LEMMA AnonKeeps ==
    ASSUME NEW calls, NEW t, Ready(t, calls), NEW a \in ToolIds \union {None}
    PROVE  LET w == [t EXCEPT !.anon = a]
           IN  /\ Ready(w, calls) /\ w.anon = a
               /\ w.id = t.id /\ w.key = t.key /\ w.ambiguous = t.ambiguous /\ w.made = t.made
               /\ w.anchor = t.anchor /\ w.blocks = t.blocks
  <1> DEFINE w == [t EXCEPT !.anon = a]
  <1>1. t \in Workings
    BY DEF Ready, Good
  <1>2. /\ w \in Workings /\ w.anon = a
        /\ w.id = t.id /\ w.open = t.open /\ w.blocks = t.blocks /\ w.key = t.key
        /\ w.emitted = t.emitted /\ w.anchor = t.anchor
        /\ w.ambiguous = t.ambiguous /\ w.made = t.made
        /\ w.shown = t.shown /\ w.sent = t.sent
    BY <1>1 DEF Workings
  <1> HIDE DEF w
  <1>3. BlocksSound(w, calls)
    BY <1>2 DEF Ready, Good, BlocksSound, WellFormed, Tells, ToolBlockId
  <1>4. Mirrors(w) /\ Unsent(w)
    BY <1>2 DEF Ready, Good, Mirrors, Unsent, InTheBrowser
  <1> QED
    BY <1>2, <1>3, <1>4 DEF Ready, Good, w

LEMMA RestrictedTyped ==
    ASSUME NEW em \in Emissions, NEW g
    PROVE  LET r == Restrict(em, DOMAIN em \ {g})
           IN  /\ r \in Emissions /\ DOMAIN r = DOMAIN em \ {g}
               /\ \A x \in DOMAIN r : r[x] = em[x]
  <1>1. PICK T \in SUBSET ToolIds : em \in [T -> 0..MaxChunks]
    BY DEF Emissions
  <1>2. Restrict(em, DOMAIN em \ {g}) \in [T \ {g} -> 0..MaxChunks]
    BY <1>1 DEF Restrict
  <1>3. T \ {g} \in SUBSET ToolIds
    OBVIOUS
  <1> QED
    BY <1>1, <1>2, <1>3 DEF Restrict, Emissions

(* completeToolCallBlock *)
LEMMA EndKnown ==
    ASSUME NEW calls, NEW t, Good(t, calls), NEW e \in Nat, e \in DOMAIN calls,
           NEW tool, NEW g \in ToolIds, Resolves(t, tool, g),
           Tells(t, calls, g, e), Fits(t, g, e), NEW error \in BOOLEAN
    PROVE  LET w == CompleteToolCallBlock(t, tool, e, error)
           IN  /\ Ready(w, calls)
               /\ w.id = t.id /\ w.key = t.key /\ w.ambiguous = t.ambiguous /\ w.made = t.made
               /\ w.anchor = g /\ w.anon = (IF tool = None THEN None ELSE t.anon)
               /\ Others(t, w, e)
               /\ HasCall(w, g, e, StatusOf(error)) /\ HasResult(w, g, e, StatusOf(error))
  <1> DEFINE status == StatusOf(error)
             u == UpsertToolCallBlock(t, tool, e, status)
             w == CompleteToolCallBlock(t, tool, e, error)
             block == ResultBlock(t.id, g, e, Final, status)
             em == Restrict(u.emitted, DOMAIN u.emitted \ {g})
             p == PutOf(u, block, em)
             anon == IF tool = None THEN None ELSE t.anon
  <1>1. status \in Statuses /\ status # "pending"
    BY DEF StatusOf, Statuses
  <1>2. /\ Ready(u, calls) /\ Stays(t, u) /\ u.emitted = t.emitted
        /\ u.anchor = g /\ u.got = g
        /\ Others(t, u, e) /\ HasCall(u, g, e, status) /\ Fits(u, g, e)
    <2> HIDE DEF status
    <2> QED
      BY <1>1, CallKnown
  <1>3. u \in Workings /\ u.id = t.id /\ u.id \in Nat /\ u.open /\ u.emitted \in Emissions
        /\ u.anon = t.anon
    BY <1>2 DEF Ready, Good, Workings, Stays
  <1>4. ToolCallId(u, tool, "end") = u
    <2>1. Resolves(u, tool, g)
      BY <1>2 DEF Resolves, Stays
    <2>2. ToolCallId(u, tool, "end") = Getting(u, g)
      <3> HIDE DEF u
      <3> QED
        BY <2>1, Resolution
    <2> HIDE DEF u
    <2> QED
      BY <1>2, <1>3, <2>2, GotAgain
  <1> HIDE DEF u
  <1>5. Final \in Pieces
    <2>1. <<0, 0>> \in Nat \X Nat
      OBVIOUS
    <2> DEFINE S == Nat \X Nat
               x == <<0, 0>>
    <2>2. <<x>> \in Seq(S)
      <3>1. x \in S
        BY <2>1
      <3> HIDE DEF S, x
      <3> QED
        BY <3>1
    <2> QED
      BY <2>2 DEF Final, Pieces
  <1>6. /\ em \in Emissions /\ DOMAIN em = DOMAIN u.emitted \ {g}
        /\ \A x \in DOMAIN em : em[x] = u.emitted[x]
    BY <1>3, RestrictedTyped
  <1> HIDE DEF em, status
  <1>7. block \in Blocks /\ block = ResultBlock(u.id, g, e, Final, status)
    BY <1>1, <1>3, <1>5, ToolBlocksTyped
  <1> HIDE DEF block
  <1>8. Resulting(u, calls, g, e, block, p)
    <2>1. Tells(u, calls, g, e)
      BY <1>2 DEF Tells, Stays
    <2> HIDE DEF p
    <2> QED
      BY <1>1, <1>2, <1>5, <1>6, <1>7, <2>1, ResultHas DEF p
  <1>9. w = [p EXCEPT !.anon = anon]
    <2> DEFINE b == UpsertBlock(u, block)
    <2>1. u.got # None
      BY <1>2, LiveTurnAssumption
    <2>2. EnsureAssistantMessage(u) = u
      BY <1>3 DEF EnsureAssistantMessage
    <2>3. Block(ToolBlockId(u, "result", u.got), "tool_result", u.got, {e}, Final, status) = block
      BY <1>2, <1>7 DEF ToolBlockId, ResultBlock
    <2>4. w = [b EXCEPT !.emitted = Restrict(b.emitted, DOMAIN b.emitted \ {u.got}),
                        !.anon = IF tool = None THEN None ELSE b.anon]
      <3> HIDE DEF b
      <3> QED
        BY <1>4, <2>1, <2>2, <2>3 DEF CompleteToolCallBlock, u, status, b
    <2>5. b \in Workings /\ b.emitted = u.emitted /\ b.anon = u.anon
      <3>1. b = PutOf(u, block, u.emitted)
        BY <1>3, <1>7, UpsertIsPut
      <3> DEFINE q == PutOf(u, block, u.emitted)
      <3>2. q \in Workings /\ Unmoved(u, q) /\ q.emitted = u.emitted
        <4>1. u \in Workings /\ block \in Blocks /\ u.emitted \in Emissions
          BY <1>3, <1>7
        <4> QED
          BY <4>1, UpsertFields, Zenon
      <3> HIDE DEF b, q
      <3> QED
        BY <3>1, <3>2 DEF q, Unmoved
    <2>6. w = [b EXCEPT !.emitted = em, !.anon = anon]
      BY <1>2, <1>3, <2>4, <2>5 DEF em
    <2> HIDE DEF b, anon
    <2>7. p = [b EXCEPT !.emitted = em]
      BY DEF p, PutOf, b
    <2> QED
      BY <2>5, <2>6, <2>7 DEF Workings
  <1>10. anon \in ToolIds \union {None}
    BY <1>3 DEF Workings
  <1> HIDE DEF w, p, anon
  <1>11. /\ Ready(w, calls) /\ w.anon = anon
         /\ w.id = p.id /\ w.key = p.key /\ w.ambiguous = p.ambiguous /\ w.made = p.made
         /\ w.anchor = p.anchor /\ w.blocks = p.blocks
    BY <1>8, <1>9, <1>10, AnonKeeps DEF Resulting
  <1>12. /\ w.id = t.id /\ w.key = t.key /\ w.ambiguous = t.ambiguous /\ w.made = t.made
         /\ w.anchor = g
    BY <1>2, <1>8, <1>11 DEF Resulting, Unmoved, Stays
  <1>13. Others(t, w, e)
    BY <1>2, <1>8, <1>11 DEF Resulting, Others
  <1>14. HasCall(w, g, e, status)
    <2>1. HasCall(p, g, e, status)
      BY <1>2, <1>8 DEF Resulting
    <2> QED
      BY <1>11, <2>1 DEF HasCall
  <1>15. HasResult(w, g, e, status)
    BY <1>3, <1>7, <1>8, <1>11, <1>12 DEF Resulting, HasResult
  <1> QED
    BY <1>11, <1>12, <1>13, <1>14, <1>15 DEF w, anon, status

(* The start of a tool without an id, while no other one runs *)
LEMMA StartUnnamed ==
    ASSUME NEW calls, NEW t, Good(t, calls), NEW e \in Nat, e \in DOMAIN calls,
           DOMAIN calls \subseteq Nat, \A i \in DOMAIN calls : calls[i].tool \in {None, ToolId(i)},
           calls[e].tool = None, calls[e].state # "asked",
           \A i \in DOMAIN t.blocks : t.blocks[i].of # {e},
           ~t.ambiguous, t.anon = None
    PROVE  LET w == UpsertToolCallBlock(t, None, e, "pending")
               g == AnonymousId(t.made + 1)
           IN  /\ Ready(w, calls) /\ w.id = t.id /\ w.key = t.key /\ w.ambiguous = t.ambiguous
               /\ w.anon = g /\ w.anchor = g /\ g \in ToolIds
               /\ Others(t, w, e) /\ HasCall(w, g, e, "pending")
  <1> DEFINE g == AnonymousId(t.made + 1)
             u == [t EXCEPT !.got = g, !.anon = g, !.made = t.made + 1]
             w == UpsertToolCallBlock(t, None, e, "pending")
  <1>1. t \in Workings /\ t.made \in Nat /\ t.made + 1 \in Nat
    BY DEF Good, Workings
  <1>2. g \in ToolIds /\ g # None
    BY <1>1, ToolIdsDiffer
  <1>3. \A n \in 1..t.made : AnonymousId(n) # g
    <2>1. \A n \in 1..t.made : n \in Nat /\ n # t.made + 1
      BY <1>1
    <2> QED
      BY <1>1, <2>1, ToolIdsDiffer
  <1>4. \A i \in Nat : ToolId(i) # g
    BY <1>1, ToolIdsDiffer
  <1>5. ToolCallId(t, None, "start") = u
    BY DEF ToolCallId
  <1>6. AnonymousId(t.made + 1) = g
    OBVIOUS
  <1> HIDE DEF g
  <1>7. /\ u \in Workings /\ u.got = g /\ u.anon = g /\ u.made = t.made + 1
        /\ u.id = t.id /\ u.open = t.open /\ u.blocks = t.blocks /\ u.key = t.key
        /\ u.emitted = t.emitted /\ u.anchor = t.anchor /\ u.ambiguous = t.ambiguous
        /\ u.shown = t.shown /\ u.sent = t.sent
    BY <1>1, <1>2 DEF Workings
  <1> HIDE DEF u
  <1>8. \A n \in 1..t.made : n \in 1..u.made
    BY <1>1, <1>7
  <1>9. BlocksSound(u, calls)
    <2>1. \A b : WellFormed(t, calls, b) => WellFormed(u, calls, b)
      BY <1>7, <1>8 DEF WellFormed, Tells, ToolBlockId
    <2> QED
      BY <1>7, <2>1 DEF Good, BlocksSound
  <1>10. Good(u, calls)
    BY <1>7, <1>9 DEF Good, Mirrors, Unsent, InTheBrowser
  <1>11. Tells(u, calls, g, e)
    <2>1. u.made \in 1..u.made
      BY <1>1, <1>7
    <2> QED
      BY <1>6, <1>7, <2>1 DEF Tells
  <1>12. Fits(u, g, e)
    <2>1. ASSUME NEW i \in DOMAIN t.blocks, t.blocks[i].type \notin TextLike
          PROVE  t.blocks[i].tool # g
      <3>1. PICK x \in DOMAIN calls : Tells(t, calls, t.blocks[i].tool, x)
        BY <2>1 DEF Good, BlocksSound, WellFormed
      <3>2. CASE calls[x].tool # None
        BY <1>4, <3>1, <3>2 DEF Tells
      <3>3. CASE calls[x].tool = None
        BY <1>3, <3>1, <3>3 DEF Tells
      <3> QED
        BY <3>2, <3>3
    <2> QED
      BY <1>7, <2>1 DEF Fits
  <1>13. w = Called(u, e, "pending")
    BY <1>2, <1>5, <1>7 DEF UpsertToolCallBlock, Called
  <1> HIDE DEF w
  <1>14. "pending" \in Statuses
    BY DEF Statuses
  <1>15. /\ Ready(w, calls) /\ Stays(u, w)
         /\ w.anchor = u.got
         /\ Others(u, w, e) /\ HasCall(w, u.got, e, "pending")
    BY <1>2, <1>7, <1>10, <1>11, <1>12, <1>13, <1>14, CalledHas
  <1>16. Others(t, w, e)
    BY <1>7, <1>15 DEF Others
  <1> QED
    BY <1>2, <1>7, <1>15, <1>16 DEF Stays, w, g

(* A tool with an id has blocks of its own. *)
LEMMA FitsNamed ==
    ASSUME NEW calls, NEW t, BlocksSound(t, calls), NEW e \in Nat, e \in DOMAIN calls,
           DOMAIN calls \subseteq Nat, \A i \in DOMAIN calls : calls[i].tool \in {None, ToolId(i)},
           t.made \in Nat, calls[e].tool # None
    PROVE  Fits(t, ToolId(e), e)
  <1> SUFFICES ASSUME NEW i \in DOMAIN t.blocks, t.blocks[i].type \notin TextLike
               PROVE  t.blocks[i].of = {e} <=> t.blocks[i].tool = ToolId(e)
    BY DEF Fits
  <1>1. PICK x \in DOMAIN calls : t.blocks[i].of = {x} /\ Tells(t, calls, t.blocks[i].tool, x)
    BY DEF BlocksSound, WellFormed
  <1>2. x \in Nat
    OBVIOUS
  <1>3. CASE calls[x].tool # None
    <2>1. t.blocks[i].tool = ToolId(x)
      BY <1>1, <1>3 DEF Tells
    <2>2. ToolId(x) = ToolId(e) => x = e
      BY <1>2, ToolIdsDiffer
    <2> QED
      BY <1>1, <2>1, <2>2
  <1>4. CASE calls[x].tool = None
    <2>1. PICK n \in 1..t.made : t.blocks[i].tool = AnonymousId(n)
      BY <1>1, <1>4 DEF Tells
    <2>2. ToolId(e) # AnonymousId(n)
      BY <2>1, ToolIdsDiffer
    <2> QED
      BY <1>1, <1>4, <2>1, <2>2
  <1> QED
    BY <1>3, <1>4

(* What is known of the one execution without an id that runs *)
LEMMA FitsUnnamed ==
    ASSUME NEW calls, NEW t, BlocksSound(t, calls), NEW g, NEW e,
           NEW c \in CallBlocks(t.blocks, g), t.blocks[c].of = {e}
    PROVE  Fits(t, g, e) /\ Tells(t, calls, g, e) /\ g \in ToolIds
  <1>1. /\ c \in DOMAIN t.blocks /\ t.blocks[c].type = "tool_call" /\ t.blocks[c].tool = g
        /\ t.blocks[c].type \notin TextLike
    BY DEF CallBlocks, TextLike
  <1>2. Fits(t, g, e)
    <2>1. ASSUME NEW i \in DOMAIN t.blocks, t.blocks[i].type \notin TextLike
          PROVE  t.blocks[i].of = {e} <=> t.blocks[i].tool = g
      <3>1. OfTools(t.blocks[i], t.blocks[c])
        BY <1>1, <2>1 DEF OfTools
      <3>2. t.blocks[i].of = t.blocks[c].of <=> t.blocks[i].tool = t.blocks[c].tool
        <4>1. i \in DOMAIN t.blocks /\ c \in DOMAIN t.blocks
          BY <1>1
        <4> QED
          BY <3>1, <4>1, Zenon DEF BlocksSound
      <3> QED
        BY <1>1, <3>2
    <2> QED
      BY <2>1 DEF Fits
  <1>3. PICK x \in DOMAIN calls : t.blocks[c].of = {x} /\ Tells(t, calls, g, x)
    BY <1>1 DEF BlocksSound, WellFormed
  <1>4. x = e
    BY <1>3
  <1>5. g \in ToolIds
    BY <1>1 DEF BlocksSound, WellFormed
  <1> QED
    BY <1>2, <1>3, <1>4, <1>5

-------------------------------------------------------------------------------
(* Steps *)

(* Executions only go on. *)
GoesOn(calls, later) ==
    /\ DOMAIN calls \subseteq DOMAIN later
    /\ \A i \in DOMAIN calls :
         later[i].tool = calls[i].tool /\ (calls[i].state # "asked" => later[i].state # "asked")

LEMMA BlocksStaySound ==
    ASSUME NEW p, NEW calls, NEW later, GoesOn(calls, later), BlocksSound(p, calls)
    PROVE  BlocksSound(p, later)
  <1>1. \A b : WellFormed(p, calls, b) => WellFormed(p, later, b)
    BY DEF GoesOn, WellFormed, Tells
  <1> QED
    BY <1>1 DEF BlocksSound

LEMMA BegunGood ==
    ASSUME live \in Projections, seen \in Copies, InStep, ~live.open => live.blocks = <<>>,
           NEW calls, BlocksSound(live, calls)
    PROVE  /\ Good(Begun, calls)
           /\ Begun.id = live.id /\ Begun.open = live.open /\ Begun.blocks = live.blocks
           /\ Begun.key = live.key /\ Begun.emitted = live.emitted /\ Begun.anchor = live.anchor
           /\ Begun.anon = live.anon /\ Begun.ambiguous = live.ambiguous /\ Begun.made = live.made
           /\ Begun.got = None /\ Begun.sent = "nothing"
  <1> DEFINE t == Begun
  <1>1. t \in Workings
    BY BegunTyped
  <1>2. /\ t.id = live.id /\ t.open = live.open /\ t.blocks = live.blocks
        /\ t.key = live.key /\ t.emitted = live.emitted /\ t.anchor = live.anchor
        /\ t.anon = live.anon /\ t.ambiguous = live.ambiguous /\ t.made = live.made
        /\ t.got = None /\ t.sent = "nothing" /\ t.shown = seen
    BY DEF Begun
  <1> HIDE DEF t
  <1>3. BlocksSound(t, calls)
    BY <1>2 DEF BlocksSound, WellFormed, Tells, ToolBlockId
  <1>4. Mirrors(t)
    BY <1>2 DEF Mirrors, InStep, InTheBrowser
  <1> QED
    BY <1>1, <1>2, <1>3, <1>4 DEF Good, Unsent, t

LEMMA Handled ==
    ASSUME live \in Projections, seen \in Copies, linked \in BOOLEAN, missed \in BOOLEAN, InStep,
           NEW calls, NEW t, Good(t, calls), Handle(t)
    PROVE  /\ live' \in Projections /\ BlocksSound(live', calls)
           /\ live'.id = t.id /\ live'.open = t.open /\ live'.blocks = t.blocks
           /\ live'.key = t.key /\ live'.emitted = t.emitted /\ live'.anchor = t.anchor
           /\ live'.anon = t.anon /\ live'.ambiguous = t.ambiguous /\ live'.made = t.made
           /\ seen' \in Copies /\ missed' \in BOOLEAN /\ linked' \in BOOLEAN
           /\ InStep' /\ (~live'.open => live'.blocks = <<>>)
  <1> DEFINE p == Restrict(t, DOMAIN live)
  <1>1. t \in Workings /\ t.shown \in Copies
    BY DEF Good, Workings
  <1>2. /\ p \in Projections
        /\ p.id = t.id /\ p.open = t.open /\ p.blocks = t.blocks /\ p.key = t.key
        /\ p.emitted = t.emitted /\ p.anchor = t.anchor /\ p.anon = t.anon
        /\ p.ambiguous = t.ambiguous /\ p.made = t.made
    BY <1>1, KeptTyped
  <1>3. live' = p
    BY DEF Handle
  <1> HIDE DEF p
  <1>4. BlocksSound(p, calls)
    BY <1>2 DEF Good, BlocksSound, WellFormed, Tells, ToolBlockId
  <1>5. /\ missed' = IF linked THEN missed /\ t.sent # "whole" ELSE missed \/ t.sent # "nothing"
        /\ seen' = IF missed' THEN NoMessage ELSE IF linked THEN t.shown ELSE seen
        /\ linked' = linked
    BY DEF Handle, Publish
  <1>6. seen' \in Copies
    <2>1. NoMessage \in Copies
      BY DEF NoMessage, Copies
    <2> QED
      BY <1>1, <1>5, <2>1
  <1>7. missed' \in BOOLEAN
    BY <1>5
  <1>8. ASSUME p.open, ~missed'
        PROVE  seen' = [id |-> p.id, blocks |-> InTheBrowser(p)]
    <2>1. CASE linked
      BY <1>2, <1>5, <1>8, <2>1 DEF Good, Mirrors, InTheBrowser
    <2>2. CASE ~linked
      BY <1>2, <1>5, <1>8, <2>2 DEF Good, Unsent, InStep, InTheBrowser
    <2> QED
      BY <2>1, <2>2
  <1>9. InStep'
    BY <1>3, <1>8 DEF InStep
  <1>10. ~p.open => p.blocks = <<>>
    BY <1>2 DEF Good
  <1> QED
    BY <1>2, <1>3, <1>4, <1>5, <1>6, <1>7, <1>9, <1>10

Calls == [tool : ToolIds \union {None}, state : Ran, chunks : 0..MaxChunks]

(* What streams belongs to results that are shown. *)
LEMMA TypedAgain ==
    ASSUME NEW p \in Projections, NEW calls, BlocksSound(p, calls)
    PROVE  p \in [id : Nat, open : BOOLEAN, blocks : Seq(Blocks),
                  key : [TextLike -> BlockIds \union {None}],
                  emitted : UNION {[T -> 0..MaxChunks] : T \in SUBSET {b.tool : b \in ToSet(p.blocks)}},
                  anchor : ToolIds \union {None}, anon : ToolIds \union {None},
                  ambiguous : BOOLEAN, made : Nat]
  <1> DEFINE S == {b.tool : b \in ToSet(p.blocks)}
             E == UNION {[T -> 0..MaxChunks] : T \in SUBSET S}
  <1>1. DOMAIN p.emitted \subseteq S
    <2>1. ASSUME NEW tool \in DOMAIN p.emitted
          PROVE  tool \in S
      <3>1. PICK i \in DOMAIN p.blocks : p.blocks[i].tool = tool
        BY DEF BlocksSound, Results
      <3>2. p.blocks[i] \in ToSet(p.blocks)
        BY DEF ToSet
      <3> QED
        BY <3>1, <3>2
    <2> QED
      BY <2>1
  <1>2. PICK T \in SUBSET ToolIds : p.emitted \in [T -> 0..MaxChunks]
    BY DEF Projections, Emissions
  <1>3. T \in SUBSET S
    BY <1>1, <1>2
  <1> HIDE DEF S
  <1>4. p.emitted \in E
    BY <1>2, <1>3
  <1> HIDE DEF E
  <1> QED
    BY <1>4 DEF Projections, Keys, E, S

LEMMA InvariantTyped ==
    ASSUME LiveInv
    PROVE  /\ live \in Projections /\ seen \in Copies /\ InStep
           /\ ~live.open => live.blocks = <<>>
           /\ linked \in BOOLEAN /\ missed \in BOOLEAN /\ overlapped \in BOOLEAN
           /\ tools \in Seq(Calls) /\ DOMAIN tools \subseteq Nat
           /\ \A e \in DOMAIN tools : tools[e] \in Calls /\ tools[e].tool \in {None, ToolId(e)}
           /\ \A e \in DOMAIN tools : ToolId(e) \in ToolIds
  <1>1. live \in Projections /\ seen \in Copies
    BY LiveTyped DEF LiveInv
  <1>2. tools \in Seq(Calls) /\ linked \in BOOLEAN /\ missed \in BOOLEAN /\ overlapped \in BOOLEAN
    BY DEF LiveInv, TypeOK, Calls
  <1>3. DOMAIN tools \subseteq Nat /\ \A e \in DOMAIN tools : tools[e] \in Calls
    BY <1>2
  <1>4. \A e \in DOMAIN tools : ToolId(e) \in ToolIds
    BY <1>3, ToolIdsDiffer
  <1> QED
    BY <1>1, <1>2, <1>3, <1>4 DEF LiveInv, ProjectionSound, IdsSound

(* The parts of an execution's place in a turn *)
Followed(e) ==
    (tools[e].tool # None \/ ~overlapped) /\ tools[e].state # "asked" =>
        /\ \E c \in ShownAs(e) : live.blocks[c].type = "tool_call"
        /\ tools[e].state = "ended" => Closed(e)

(* A step of execution e *)
StepOf(e) ==
    /\ phase = "tools" /\ tools' \in Seq(Calls) /\ DOMAIN tools' = DOMAIN tools
    /\ Len(tools') = Len(tools)
    /\ \A i \in DOMAIN tools : i # e => tools'[i] = tools[i]
    /\ tools'[e].tool = tools[e].tool /\ tools'[e].state # "asked"
    /\ overlapped' \in BOOLEAN /\ (overlapped => overlapped')
    /\ UNCHANGED <<phase, turn, said, deltas, before, parts, cut>>

LEMMA StepGoesOn ==
    ASSUME NEW e \in DOMAIN tools, StepOf(e)
    PROVE  GoesOn(tools, tools')
  BY DEF StepOf, GoesOn

LEMMA HandlerStep ==
    ASSUME LiveInv, NEW e \in DOMAIN tools, StepOf(e),
           NEW t, Good(t, tools'), Handle(t), t.key = live.key, Others(Begun, t, e),
           t.anchor # None => CallBlocks(t.blocks, t.anchor) # {}
    PROVE  /\ TypeOK' /\ ProjectionSound' /\ IdsSound' /\ BlocksSound(live', tools') /\ InStep'
           /\ \A i \in DOMAIN tools : i # e => Followed(i)'
           /\ \A j \in DOMAIN live.blocks :
                live.blocks[j].type \notin TextLike /\ live.blocks[j].of # {e} =>
                    j \in DOMAIN live'.blocks /\ live'.blocks[j] = live.blocks[j]
           /\ live'.blocks = t.blocks /\ live'.anon = t.anon /\ live'.ambiguous = t.ambiguous
           /\ live'.id = t.id
           /\ Others(live, live', e) /\ live'.key = live.key /\ live'.id = live.id
           /\ live'.open = t.open
  <1>1. /\ live \in Projections /\ seen \in Copies /\ InStep
        /\ linked \in BOOLEAN /\ missed \in BOOLEAN
    BY InvariantTyped
  <1>2. /\ live' \in Projections /\ BlocksSound(live', tools')
        /\ live'.id = t.id /\ live'.open = t.open /\ live'.blocks = t.blocks
        /\ live'.key = t.key /\ live'.emitted = t.emitted /\ live'.anchor = t.anchor
        /\ live'.anon = t.anon /\ live'.ambiguous = t.ambiguous /\ live'.made = t.made
        /\ seen' \in Copies /\ missed' \in BOOLEAN /\ linked' \in BOOLEAN
        /\ InStep' /\ (~live'.open => live'.blocks = <<>>)
    BY <1>1, Handled
  <1>3. live'.id = live.id
    BY <1>2 DEF Good
  <1>4. TypeOK'
    <2>1. (live \in [id : Nat, open : BOOLEAN, blocks : Seq(Blocks),
                 key : [TextLike -> BlockIds \union {None}],
                 emitted : UNION {[T -> 0..MaxChunks] : T \in SUBSET {b.tool : b \in ToSet(live.blocks)}},
                 anchor : ToolIds \union {None}, anon : ToolIds \union {None},
                 ambiguous : BOOLEAN, made : Nat])'
      BY <1>2, TypedAgain
    <2>2. seen' \in [id : Nat, blocks : Seq(Blocks)]
      BY <1>2 DEF Copies
    <2>3. {linked, missed, cut, overlapped}' \subseteq BOOLEAN
      BY <1>2 DEF StepOf, LiveInv, TypeOK
    <2>4. (tools \in Seq([tool : ToolIds \union {None}, state : Ran, chunks : 0..MaxChunks]))'
      BY DEF StepOf, Calls
    <2> QED
      BY <2>1, <2>2, <2>3, <2>4 DEF StepOf, LiveInv, TypeOK
  <1>5. ProjectionSound'
    BY <1>2 DEF ProjectionSound, StepOf
  <1>6. IdsSound'
    <2>1. \A i \in DOMAIN tools' : tools'[i].tool \in {None, ToolId(i)}
      BY DEF StepOf, LiveInv, IdsSound
    <2>2. live'.key = live.key
      BY <1>2
    <2>3. live'.anchor # None => CallBlocks(live'.blocks, live'.anchor) # {}
      BY <1>2
    <2> QED
      BY <1>3, <2>1, <2>2, <2>3 DEF LiveInv, IdsSound
  <1>7. \A j \in DOMAIN live.blocks :
          live.blocks[j].type \notin TextLike /\ live.blocks[j].of # {e} =>
              j \in DOMAIN live'.blocks /\ live'.blocks[j] = live.blocks[j]
    <2>1. Begun.blocks = live.blocks
      BY DEF Begun
    <2> QED
      BY <1>2, <2>1 DEF Others
  <1>9. Others(live, live', e)
    <2>1. Begun.blocks = live.blocks
      BY DEF Begun
    <2> QED
      BY <1>2, <2>1 DEF Others
  <1>8. ASSUME NEW i \in DOMAIN tools, i # e
        PROVE  Followed(i)'
    <2>1. ASSUME NEW j \in ShownAs(i)
          PROVE  j \in ShownAs(i)' /\ live'.blocks[j] = live.blocks[j]
      <3>1. j \in DOMAIN live.blocks /\ i \in live.blocks[j].of
        BY DEF ShownAs
      <3>2. WellFormed(live, tools, live.blocks[j])
        BY <3>1 DEF LiveInv, BlocksSound
      <3>3. live.blocks[j].type \notin TextLike /\ live.blocks[j].of # {e}
        BY <1>8, <3>1, <3>2 DEF WellFormed
      <3> QED
        BY <1>7, <3>1, <3>3 DEF ShownAs
    <2>2. Followed(i)
      BY DEF StepOf, LiveInv, FollowedSound, Followed
    <2>3. tools'[i] = tools[i] /\ (~overlapped' => ~overlapped)
      BY <1>8 DEF StepOf
    <2>4. Closed(i) => Closed(i)'
      BY <2>1 DEF Closed
    <2> QED
      BY <2>1, <2>2, <2>3, <2>4 DEF Followed
  <1> QED
    BY <1>2, <1>3, <1>4, <1>5, <1>6, <1>7, <1>8, <1>9

(* What a step of execution e leaves as it was. *)
Moved(e) ==
    /\ Others(live, live', e) /\ live'.key = live.key /\ live'.id = live.id
    /\ live'.open \/ (live'.open = live.open /\ seen' \in {seen, NoMessage})

(* The tool of an execution that can be followed is known. *)
LEMMA StepReady ==
    ASSUME LiveInv, NEW e \in DOMAIN tools, StepOf(e),
           tools[e].tool # None \/ (RunsUnnamed(e) /\ ~live.ambiguous)
    PROVE  \E g \in ToolIds :
             /\ Good(Begun, tools') /\ Resolves(Begun, tools[e].tool, g)
             /\ Tells(Begun, tools', g, e) /\ Fits(Begun, g, e)
  <1>1. /\ live \in Projections /\ seen \in Copies /\ InStep
        /\ ~live.open => live.blocks = <<>>
        /\ DOMAIN tools \subseteq Nat /\ e \in Nat /\ ToolId(e) \in ToolIds
        /\ tools[e].tool \in {None, ToolId(e)}
    BY InvariantTyped
  <1>2. BlocksSound(live, tools')
    BY StepGoesOn, BlocksStaySound DEF LiveInv
  <1> DEFINE t == Begun
  <1>3. /\ Good(t, tools')
        /\ t.anon = live.anon /\ t.ambiguous = live.ambiguous /\ t.blocks = live.blocks
    BY <1>1, <1>2, BegunGood
  <1> HIDE DEF t
  <1>4. BlocksSound(t, tools') /\ t.made \in Nat
    BY <1>3 DEF Good, Workings
  <1>5. /\ DOMAIN tools' \subseteq Nat /\ e \in DOMAIN tools'
        /\ \A i \in DOMAIN tools' : tools'[i].tool \in {None, ToolId(i)}
        /\ tools'[e].tool = tools[e].tool /\ tools'[e].state # "asked"
    BY <1>1 DEF StepOf, LiveInv, IdsSound
  <1>6. CASE tools[e].tool # None
    <2>1. tools[e].tool = ToolId(e)
      BY <1>1, <1>6
    <2>2. Resolves(t, tools[e].tool, ToolId(e))
      BY <1>6, <2>1 DEF Resolves
    <2>3. Tells(t, tools', ToolId(e), e)
      BY <1>5, <1>6, <2>1 DEF Tells
    <2>4. Fits(t, ToolId(e), e)
      BY <1>1, <1>4, <1>5, <1>6, FitsNamed
    <2> QED
      BY <1>1, <1>3, <2>2, <2>3, <2>4 DEF t
  <1>7. CASE tools[e].tool = None
    <2>1. RunsUnnamed(e) /\ ~live.ambiguous
      BY <1>7
    <2>2. PICK x \in DOMAIN tools :
              /\ live.anon # None
              /\ \A i \in DOMAIN tools : RunsUnnamed(i) <=> i = x
              /\ \E c \in CallBlocks(live.blocks, live.anon) : live.blocks[c].of = {x}
      BY <2>1 DEF LiveInv, AnonymousSound, StepOf
    <2>3. x = e
      BY <2>1, <2>2
    <2>4. PICK c \in CallBlocks(t.blocks, live.anon) : t.blocks[c].of = {e}
      BY <1>3, <2>2, <2>3
    <2>5. Fits(t, live.anon, e) /\ Tells(t, tools', live.anon, e) /\ live.anon \in ToolIds
      BY <1>4, <2>4, FitsUnnamed
    <2>6. Resolves(t, tools[e].tool, live.anon)
      BY <1>3, <1>7, <2>1 DEF Resolves
    <2> QED
      BY <1>3, <2>5, <2>6 DEF t
  <1> QED
    BY <1>6, <1>7

LEMMA CallShows ==
    ASSUME NEW w, NEW g, NEW e, NEW status, HasCall(w, g, e, status)
    PROVE  \E c \in CallBlocks(w.blocks, g) :
             w.blocks[c].of = {e} /\ w.blocks[c].type = "tool_call" /\ w.blocks[c].status = status
  <1>1. PICK c \in DOMAIN w.blocks : w.blocks[c] = CallBlock(w.id, g, e, status)
    BY DEF HasCall
  <1>2. /\ w.blocks[c].tool = g /\ w.blocks[c].of = {e} /\ w.blocks[c].type = "tool_call"
        /\ w.blocks[c].status = status
    BY <1>1 DEF CallBlock, Block
  <1> QED
    BY <1>2 DEF CallBlocks

LEMMA ResultShows ==
    ASSUME NEW w, NEW g, NEW e, NEW status, HasResult(w, g, e, status)
    PROVE  \E r \in DOMAIN w.blocks :
             /\ w.blocks[r].of = {e} /\ w.blocks[r].type = "tool_result"
             /\ w.blocks[r].status = status /\ w.blocks[r].content = Final
  <1>1. PICK r \in DOMAIN w.blocks : w.blocks[r] = ResultBlock(w.id, g, e, Final, status)
    BY DEF HasResult
  <1>2. /\ w.blocks[r].of = {e} /\ w.blocks[r].type = "tool_result"
        /\ w.blocks[r].status = status /\ w.blocks[r].content = Final
    BY <1>1 DEF ResultBlock, Block
  <1> QED
    BY <1>2

LEMMA AnonymousStep ==
    ASSUME LiveInv, NEW e \in DOMAIN tools, StepOf(e),
           live'.ambiguous = live.ambiguous,
           \A j \in DOMAIN live.blocks :
             live.blocks[j].type \notin TextLike /\ live.blocks[j].of # {e} =>
                 j \in DOMAIN live'.blocks /\ live'.blocks[j] = live.blocks[j],
           tools[e].tool # None => live'.anon = live.anon,
           tools[e].tool = None =>
             /\ RunsUnnamed(e) /\ ~live.ambiguous
             /\ IF tools'[e].state = "running"
                THEN /\ live'.anon = live.anon
                     /\ \E c \in CallBlocks(live'.blocks, live.anon) : live'.blocks[c].of = {e}
                ELSE live'.anon = None
    PROVE  AnonymousSound'
  <1>1. AnonymousSound /\ phase = "tools" /\ phase' = "tools"
    BY DEF LiveInv, StepOf
  <1>2. \A i \in DOMAIN tools : i # e => (RunsUnnamed(i)' <=> RunsUnnamed(i))
    BY DEF StepOf, RunsUnnamed
  <1>3. DOMAIN tools' = DOMAIN tools /\ (overlapped => overlapped')
        /\ tools'[e].tool = tools[e].tool
    BY DEF StepOf
  <1>4. CASE tools[e].tool # None
    <2>1. \A i \in DOMAIN tools : RunsUnnamed(i)' <=> RunsUnnamed(i)
      BY <1>2, <1>3, <1>4 DEF RunsUnnamed
    <2>2. live'.ambiguous => overlapped' /\ live'.anon = None
      BY <1>1, <1>3, <1>4 DEF AnonymousSound
    <2>3. ASSUME ~live.ambiguous, live.anon = None
          PROVE  \A i \in DOMAIN tools : ~RunsUnnamed(i)'
      BY <1>1, <2>1, <2>3 DEF AnonymousSound
    <2>4. ASSUME ~live.ambiguous, live.anon # None
          PROVE  \E x \in DOMAIN tools :
                    /\ \A i \in DOMAIN tools : RunsUnnamed(i)' <=> i = x
                    /\ \E c \in CallBlocks(live'.blocks, live.anon) : live'.blocks[c].of = {x}
      <3>1. PICK x \in DOMAIN tools :
                /\ \A i \in DOMAIN tools : RunsUnnamed(i) <=> i = x
                /\ \E c \in CallBlocks(live.blocks, live.anon) : live.blocks[c].of = {x}
        BY <1>1, <2>4 DEF AnonymousSound
      <3>2. x # e
        BY <1>4, <3>1 DEF RunsUnnamed
      <3>3. PICK c \in CallBlocks(live.blocks, live.anon) : live.blocks[c].of = {x}
        BY <3>1
      <3>4. c \in DOMAIN live.blocks /\ live.blocks[c].type \notin TextLike /\ live.blocks[c].of # {e}
        BY <3>2, <3>3 DEF CallBlocks, TextLike
      <3>5. c \in CallBlocks(live'.blocks, live.anon) /\ live'.blocks[c].of = {x}
        BY <3>3, <3>4 DEF CallBlocks
      <3> QED
        BY <2>1, <3>1, <3>5
    <2> QED
      BY <1>1, <1>3, <1>4, <2>2, <2>3, <2>4 DEF AnonymousSound
  <1>5. CASE tools[e].tool = None
    <2>1. \A i \in DOMAIN tools : RunsUnnamed(i) <=> i = e
      <3>1. RunsUnnamed(e) /\ ~live.ambiguous
        BY <1>5
      <3> QED
        BY <1>1, <3>1 DEF AnonymousSound
    <2>2. live.anon # None
      BY <1>1, <1>5 DEF AnonymousSound
    <2>3. \A i \in DOMAIN tools : RunsUnnamed(i)' <=> (i = e /\ tools'[e].state = "running")
      BY <1>2, <1>3, <1>5, <2>1 DEF RunsUnnamed
    <2>4. CASE tools'[e].state = "running"
      BY <1>1, <1>3, <1>5, <2>2, <2>3, <2>4 DEF AnonymousSound
    <2>5. CASE tools'[e].state # "running"
      BY <1>1, <1>3, <1>5, <2>3, <2>5 DEF AnonymousSound
    <2> QED
      BY <2>4, <2>5
  <1> QED
    BY <1>4, <1>5

LEMMA CallReplaced ==
    ASSUME LiveInv, NEW e \in DOMAIN tools, NEW c \in Calls, tools' = [tools EXCEPT ![e] = c]
    PROVE  /\ tools' \in Seq(Calls) /\ DOMAIN tools' = DOMAIN tools /\ Len(tools') = Len(tools)
           /\ \A i \in DOMAIN tools : i # e => tools'[i] = tools[i]
           /\ tools'[e] = c
  <1>1. tools \in Seq(Calls)
    BY InvariantTyped
  <1> QED
    BY <1>1

(* Nothing is projected of a tool without an id once two of those overlapped. *)
Alike(t, w, calls) ==
    /\ Good(w, calls) /\ Stays(t, w) /\ w.anchor = t.anchor /\ w.blocks = t.blocks
    /\ w.open = t.open /\ w.shown = t.shown

LEMMA UnknownKeeps ==
    ASSUME NEW calls, NEW t, Good(t, calls), t.ambiguous, NEW e, NEW status, NEW n, NEW error
    PROVE  LET u == UpsertToolCallBlock(t, None, e, status)
           IN  /\ Alike(t, u, calls)
               /\ Alike(t, StreamToolResultDelta(u, None, e, n), calls)
               /\ Alike(t, CompleteToolCallBlock(t, None, e, error), calls)
  <1> DEFINE u == Getting(t, None)
             w == Getting(u, None)
  <1>0. ASSUME NEW p, Good(p, calls)
        PROVE  LET q == Getting(p, None)
               IN  /\ Good(q, calls) /\ q.got = None /\ Stays(p, q) /\ q.anchor = p.anchor
                   /\ q.blocks = p.blocks /\ q.open = p.open /\ q.shown = p.shown
    <2> DEFINE q == Getting(p, None)
    <2>1. None \in ToolIds \union {None}
      OBVIOUS
    <2>2. /\ Good(q, calls) /\ q.got = None
          /\ q.id = p.id /\ q.open = p.open /\ q.blocks = p.blocks /\ q.key = p.key
          /\ q.emitted = p.emitted /\ q.anchor = p.anchor /\ q.anon = p.anon
          /\ q.ambiguous = p.ambiguous /\ q.made = p.made
          /\ q.shown = p.shown /\ q.sent = p.sent
      BY <1>0, <2>1, GottenKeeps, Zenon
    <2> HIDE DEF q
    <2> QED
      BY <2>2 DEF Stays, q
  <1>1. /\ Good(u, calls) /\ u.got = None /\ Stays(t, u) /\ u.anchor = t.anchor
        /\ u.blocks = t.blocks /\ u.open = t.open /\ u.shown = t.shown /\ u.ambiguous
    <2>1. /\ Good(u, calls) /\ u.got = None /\ Stays(t, u) /\ u.anchor = t.anchor
          /\ u.blocks = t.blocks /\ u.open = t.open /\ u.shown = t.shown
      BY <1>0
    <2> HIDE DEF u
    <2> QED
      BY <2>1 DEF Stays
  <1>2. \A step : ToolCallId(t, None, step) = u
    BY DEF ToolCallId, Getting
  <1>3. \A s : UpsertToolCallBlock(t, None, e, s) = u
    <2> HIDE DEF u
    <2> QED
      BY <1>1, <1>2 DEF UpsertToolCallBlock
  <1> HIDE DEF u
  <1>4. /\ Good(w, calls) /\ w.got = None /\ Stays(u, w) /\ w.anchor = u.anchor
        /\ w.blocks = u.blocks /\ w.open = u.open /\ w.shown = u.shown
    BY <1>0, <1>1
  <1>5. \A step : ToolCallId(u, None, step) = w
    BY <1>1 DEF ToolCallId, Getting
  <1> HIDE DEF w
  <1>6. StreamToolResultDelta(u, None, e, n) = w
    BY <1>4, <1>5 DEF StreamToolResultDelta
  <1>7. CompleteToolCallBlock(t, None, e, error) = w
    BY <1>3, <1>4, <1>5 DEF CompleteToolCallBlock
  <1> QED
    BY <1>1, <1>3, <1>4, <1>6, <1>7 DEF Alike, Stays

(* Such a step leaves the projection as it was. *)
LEMMA UnknownStep ==
    ASSUME LiveInv, NEW e \in DOMAIN tools, StepOf(e), tools[e].tool = None, live.ambiguous,
           NEW t, Alike(Begun, t, tools'), Handle(t)
    PROVE  LiveInv' /\ Moved(e)
  <1> DEFINE b == Begun
  <1>1. /\ b.id = live.id /\ b.key = live.key /\ b.anon = live.anon /\ b.ambiguous = live.ambiguous
        /\ b.anchor = live.anchor /\ b.blocks = live.blocks
        /\ b.open = live.open /\ b.shown = seen
    BY DEF Begun
  <1> HIDE DEF b
  <1>2. /\ Good(t, tools') /\ t.key = live.key /\ t.anon = live.anon /\ t.ambiguous = live.ambiguous
        /\ t.anchor = live.anchor /\ t.blocks = live.blocks
        /\ t.open = live.open /\ t.shown = seen
    BY <1>1 DEF Alike, Stays, b
  <1>3. Others(Begun, t, e)
    BY <1>1, <1>2 DEF Others, b
  <1>4. t.anchor # None => CallBlocks(t.blocks, t.anchor) # {}
    BY <1>2 DEF LiveInv, IdsSound
  <1>5. /\ TypeOK' /\ ProjectionSound' /\ IdsSound' /\ BlocksSound(live', tools') /\ InStep'
        /\ \A i \in DOMAIN tools : i # e => Followed(i)'
        /\ live'.blocks = t.blocks /\ live'.anon = t.anon /\ live'.ambiguous = t.ambiguous
        /\ Others(live, live', e) /\ live'.key = live.key /\ live'.id = live.id
        /\ live'.open = t.open
    BY <1>2, <1>3, <1>4, HandlerStep
  <1>6. AnonymousSound'
    BY <1>2, <1>5 DEF StepOf, LiveInv, AnonymousSound
  <1>7. Followed(e)'
    BY DEF Followed, StepOf, LiveInv, AnonymousSound
  <1>8. FollowedSound'
    BY <1>5, <1>7 DEF FollowedSound, Followed, StepOf
  <1>9. seen' \in {seen, NoMessage}
    BY <1>2 DEF Handle, Publish
  <1> QED
    BY <1>2, <1>5, <1>6, <1>8, <1>9 DEF LiveInv, Moved

(* An execution with an id is shown with the status of its result. *)
Ended(e) ==
    tools[e].tool # None =>
        \E c, r \in DOMAIN live.blocks :
            /\ live.blocks[c].type = "tool_call" /\ live.blocks[c].of = {e}
            /\ live.blocks[c].status = StatusOf(e \in Failing)
            /\ live.blocks[r].type = "tool_result" /\ live.blocks[r].of = {e}
            /\ live.blocks[r].status = StatusOf(e \in Failing)

(* tool_execution_end *)
LEMMA ToolEndKeeps ==
    ASSUME LiveInv, NEW e \in DOMAIN tools, ToolEnd(e)
    PROVE  LiveInv' /\ Moved(e) /\ Ended(e)' /\ StepOf(e) /\ tools'[e].state = "ended"
  <1> DEFINE tool == tools[e].tool
             error == e \in Failing
             t == CompleteToolCallBlock(Begun, tool, e, error)
  <1>1. StepOf(e) /\ tools'[e].state = "ended"
    <2>1. tools[e] \in Calls /\ overlapped \in BOOLEAN
      BY InvariantTyped
    <2>2. [tools[e] EXCEPT !.state = "ended"] \in Calls
      BY <2>1 DEF Calls, Ran
    <2>3. tools' = [tools EXCEPT ![e] = [tools[e] EXCEPT !.state = "ended"]]
      BY DEF ToolEnd
    <2>4. /\ tools' \in Seq(Calls) /\ DOMAIN tools' = DOMAIN tools /\ Len(tools') = Len(tools)
          /\ \A i \in DOMAIN tools : i # e => tools'[i] = tools[i]
          /\ tools'[e] = [tools[e] EXCEPT !.state = "ended"]
      BY <2>2, <2>3, CallReplaced
    <2>5. tools'[e].tool = tools[e].tool /\ tools'[e].state = "ended"
      BY <2>1, <2>4 DEF Calls
    <2> QED
      BY <2>1, <2>4, <2>5 DEF StepOf, ToolEnd
  <1>2. Handle(t) /\ tools[e].state = "running"
    BY DEF ToolEnd
  <1>3. /\ live \in Projections /\ seen \in Copies /\ InStep
        /\ ~live.open => live.blocks = <<>>
        /\ e \in Nat
    BY InvariantTyped
  <1>4. BlocksSound(live, tools')
    BY <1>1, StepGoesOn, BlocksStaySound DEF LiveInv
  <1>5. /\ Good(Begun, tools') /\ Begun.key = live.key /\ Begun.anon = live.anon
        /\ Begun.ambiguous = live.ambiguous
    BY <1>3, <1>4, BegunGood
  <1>6. CASE tool # None \/ (RunsUnnamed(e) /\ ~live.ambiguous)
    <2>1. PICK g \in ToolIds :
             /\ Good(Begun, tools') /\ Resolves(Begun, tool, g)
             /\ Tells(Begun, tools', g, e) /\ Fits(Begun, g, e)
      BY <1>1, <1>6, StepReady
    <2>2. e \in DOMAIN tools' /\ error \in BOOLEAN
      BY <1>1 DEF StepOf
    <2> HIDE DEF tool, error
    <2>3. /\ Ready(t, tools')
          /\ t.key = Begun.key /\ t.ambiguous = Begun.ambiguous
          /\ t.anchor = g /\ t.anon = (IF tool = None THEN None ELSE Begun.anon)
          /\ Others(Begun, t, e)
          /\ HasCall(t, g, e, StatusOf(error)) /\ HasResult(t, g, e, StatusOf(error))
      BY <1>3, <2>1, <2>2, EndKnown
    <2> HIDE DEF t
    <2>4. PICK c \in CallBlocks(t.blocks, g) :
             /\ t.blocks[c].of = {e} /\ t.blocks[c].type = "tool_call"
             /\ t.blocks[c].status = StatusOf(error)
      BY <2>3, CallShows
    <2>5. PICK r \in DOMAIN t.blocks :
             /\ t.blocks[r].of = {e} /\ t.blocks[r].type = "tool_result"
             /\ t.blocks[r].status = StatusOf(error) /\ t.blocks[r].content = Final
      BY <2>3, ResultShows
    <2>6. /\ TypeOK' /\ ProjectionSound' /\ IdsSound' /\ BlocksSound(live', tools') /\ InStep'
          /\ \A i \in DOMAIN tools : i # e => Followed(i)'
          /\ \A j \in DOMAIN live.blocks :
                live.blocks[j].type \notin TextLike /\ live.blocks[j].of # {e} =>
                    j \in DOMAIN live'.blocks /\ live'.blocks[j] = live.blocks[j]
          /\ live'.blocks = t.blocks /\ live'.anon = t.anon /\ live'.ambiguous = t.ambiguous
          /\ Others(live, live', e) /\ live'.key = live.key /\ live'.id = live.id
          /\ live'.open = t.open
      <3>1. Good(t, tools') /\ t.key = live.key /\ (t.anchor # None => CallBlocks(t.blocks, t.anchor) # {})
        BY <1>5, <2>3, <2>4 DEF Ready
      <3> QED
        BY <1>1, <1>2, <2>3, <3>1, HandlerStep
    <2>7. AnonymousSound'
      BY <1>1, <1>5, <1>6, <2>3, <2>6, AnonymousStep DEF tool
    <2>8. Followed(e)'
      <3>1. c \in ShownAs(e)' /\ r \in ShownAs(e)'
        BY <2>4, <2>5, <2>6 DEF ShownAs, CallBlocks
      <3>2. Closed(e)'
        BY <2>4, <2>5, <2>6, <3>1 DEF Closed
      <3> QED
        BY <2>4, <2>6, <3>1, <3>2 DEF Followed
    <2>9. FollowedSound'
      BY <1>1, <2>6, <2>8 DEF FollowedSound, Followed, StepOf
    <2>10. Ended(e)'
      BY <2>4, <2>5, <2>6 DEF Ended, CallBlocks, error
    <2> QED
      BY <1>1, <2>3, <2>6, <2>7, <2>9, <2>10 DEF LiveInv, Moved, Ready
  <1>7. CASE ~(tool # None \/ (RunsUnnamed(e) /\ ~live.ambiguous))
    <2>1. tool = None /\ live.ambiguous
      BY <1>2, <1>7 DEF RunsUnnamed
    <2>2. t = CompleteToolCallBlock(Begun, None, e, error)
      BY <2>1
    <2> HIDE DEF error
    <2>3. Alike(Begun, CompleteToolCallBlock(Begun, None, e, error), tools')
      BY <1>5, <2>1, UnknownKeeps
    <2> HIDE DEF t
    <2>4. Ended(e)'
      BY <1>1, <2>1 DEF Ended, StepOf
    <2> QED
      BY <1>1, <1>2, <2>1, <2>2, <2>3, <2>4, UnknownStep
  <1> QED
    BY <1>1, <1>6, <1>7

(* A step of an execution that is shown by its call *)
LEMMA ShownStep ==
    ASSUME LiveInv, NEW e \in DOMAIN tools, StepOf(e), tools'[e].state = "running",
           tools[e].tool # None \/ (RunsUnnamed(e) /\ ~live.ambiguous),
           NEW t, Ready(t, tools'), Handle(t), Stays(Begun, t), Others(Begun, t, e),
           NEW g \in ToolIds, Resolves(Begun, tools[e].tool, g), t.anchor = g,
           NEW status, HasCall(t, g, e, status)
    PROVE  LiveInv' /\ Moved(e)
  <1> DEFINE b == Begun
  <1>1. b.key = live.key /\ b.anon = live.anon /\ b.ambiguous = live.ambiguous
    BY DEF Begun
  <1> HIDE DEF b
  <1>2. PICK c \in CallBlocks(t.blocks, g) : t.blocks[c].of = {e} /\ t.blocks[c].type = "tool_call"
    BY CallShows
  <1>3. /\ Good(t, tools') /\ t.key = live.key /\ t.anon = live.anon /\ t.ambiguous = live.ambiguous
        /\ t.anchor # None => CallBlocks(t.blocks, t.anchor) # {}
    BY <1>1, <1>2 DEF Ready, Stays, b
  <1>4. /\ TypeOK' /\ ProjectionSound' /\ IdsSound' /\ BlocksSound(live', tools') /\ InStep'
        /\ \A i \in DOMAIN tools : i # e => Followed(i)'
        /\ \A j \in DOMAIN live.blocks :
              live.blocks[j].type \notin TextLike /\ live.blocks[j].of # {e} =>
                  j \in DOMAIN live'.blocks /\ live'.blocks[j] = live.blocks[j]
        /\ live'.blocks = t.blocks /\ live'.anon = t.anon /\ live'.ambiguous = t.ambiguous
        /\ Others(live, live', e) /\ live'.key = live.key /\ live'.id = live.id
        /\ live'.open = t.open
    BY <1>3, HandlerStep
  <1>5. AnonymousSound'
    <2>1. tools[e].tool = None => g = live.anon
      BY <1>1 DEF Resolves, b
    <2> QED
      BY <1>2, <1>3, <1>4, <2>1, AnonymousStep
  <1>6. Followed(e)'
    <2>1. c \in ShownAs(e)' /\ live'.blocks[c].type = "tool_call"
      BY <1>2, <1>4 DEF ShownAs, CallBlocks
    <2> QED
      BY <2>1 DEF Followed
  <1>7. FollowedSound'
    BY <1>4, <1>6 DEF FollowedSound, Followed, StepOf
  <1> QED
    BY <1>4, <1>5, <1>7 DEF LiveInv, Moved, Ready

(* tool_execution_update *)
LEMMA ToolUpdateKeeps ==
    ASSUME LiveInv, NEW e \in DOMAIN tools, ToolUpdate(e)
    PROVE  LiveInv' /\ Moved(e) /\ StepOf(e) /\ tools'[e].state = "running"
  <1> DEFINE tool == tools[e].tool
             n == tools[e].chunks + 1
             u == UpsertToolCallBlock(Begun, tool, e, "running")
             t == StreamToolResultDelta(u, tool, e, n)
  <1>0. tools[e] \in Calls /\ overlapped \in BOOLEAN /\ MaxChunks \in Nat
    BY InvariantTyped, LiveTurnAssumption
  <1>1. StepOf(e) /\ tools'[e].state = "running" /\ n \in 1..MaxChunks
    <2>1. tools[e].chunks < MaxChunks
      BY DEF ToolUpdate
    <2>2. n \in 1..MaxChunks /\ n \in 0..MaxChunks
      BY <1>0, <2>1 DEF Calls
    <2> HIDE DEF n
    <2>3. [tools[e] EXCEPT !.chunks = n] \in Calls
      BY <1>0, <2>2 DEF Calls
    <2>4. tools' = [tools EXCEPT ![e] = [tools[e] EXCEPT !.chunks = n]]
      BY DEF ToolUpdate, n
    <2>5. /\ tools' \in Seq(Calls) /\ DOMAIN tools' = DOMAIN tools /\ Len(tools') = Len(tools)
          /\ \A i \in DOMAIN tools : i # e => tools'[i] = tools[i]
          /\ tools'[e] = [tools[e] EXCEPT !.chunks = n]
      BY <2>3, <2>4, CallReplaced
    <2>6. tools'[e].tool = tools[e].tool /\ tools'[e].state = "running"
      BY <1>0, <2>5 DEF Calls, ToolUpdate
    <2> QED
      BY <1>0, <2>2, <2>5, <2>6 DEF StepOf, ToolUpdate
  <1>2. Handle(t) /\ tools[e].state = "running"
    BY DEF ToolUpdate
  <1> HIDE DEF n
  <1>3. /\ live \in Projections /\ seen \in Copies /\ InStep
        /\ ~live.open => live.blocks = <<>>
        /\ e \in Nat
    BY InvariantTyped
  <1>4. BlocksSound(live, tools')
    BY <1>1, StepGoesOn, BlocksStaySound DEF LiveInv
  <1>5. Good(Begun, tools') /\ Begun.ambiguous = live.ambiguous
    BY <1>3, <1>4, BegunGood
  <1>6. CASE tool # None \/ (RunsUnnamed(e) /\ ~live.ambiguous)
    <2>1. PICK g \in ToolIds :
             /\ Good(Begun, tools') /\ Resolves(Begun, tool, g)
             /\ Tells(Begun, tools', g, e) /\ Fits(Begun, g, e)
      BY <1>1, <1>6, StepReady
    <2>2. e \in DOMAIN tools' /\ "running" \in Statuses /\ "running" # "pending"
      BY <1>1 DEF StepOf, Statuses
    <2>3. /\ Ready(u, tools') /\ Stays(Begun, u)
          /\ u.anchor = g
          /\ Others(Begun, u, e) /\ HasCall(u, g, e, "running") /\ Fits(u, g, e)
      <3> HIDE DEF tool
      <3> QED
        BY <1>3, <2>1, <2>2, CallKnown
    <2>4. Resolves(u, tool, g) /\ Tells(u, tools', g, e)
      <3> HIDE DEF u, tool
      <3> QED
        BY <2>1, <2>3 DEF Resolves, Tells, Stays
    <2>5. /\ Ready(t, tools') /\ Stays(u, t) /\ t.anchor = u.anchor
          /\ Others(u, t, e)
          /\ \A s : HasCall(u, g, e, s) => HasCall(t, g, e, s)
      <3> HIDE DEF u, tool
      <3> QED
        BY <1>1, <1>3, <2>2, <2>3, <2>4, StreamKnown
    <2> HIDE DEF t, u
    <2>6. /\ Stays(Begun, t) /\ t.anchor = g /\ HasCall(t, g, e, "running")
      BY <2>3, <2>5 DEF Stays
    <2>7. Others(Begun, t, e)
      BY <2>3, <2>5, OthersCompose
    <2> QED
      BY <1>1, <1>2, <1>6, <2>1, <2>5, <2>6, <2>7, ShownStep
  <1>7. CASE ~(tool # None \/ (RunsUnnamed(e) /\ ~live.ambiguous))
    <2>1. tool = None /\ live.ambiguous
      BY <1>2, <1>7 DEF RunsUnnamed
    <2> DEFINE v == UpsertToolCallBlock(Begun, None, e, "running")
    <2>2. t = StreamToolResultDelta(v, None, e, n)
      BY <2>1
    <2>3. Alike(Begun, StreamToolResultDelta(v, None, e, n), tools')
      BY <1>5, <2>1, UnknownKeeps
    <2> HIDE DEF t, v
    <2> QED
      BY <1>1, <1>2, <2>1, <2>2, <2>3, UnknownStep
  <1> QED
    BY <1>1, <1>6, <1>7

(* Of two tools without an id that overlap, neither is known any more. *)
LEMMA LostKeeps ==
    ASSUME NEW calls, NEW t, Good(t, calls), ~t.ambiguous, t.anon # None, NEW e
    PROVE  LET w == UpsertToolCallBlock(t, None, e, "pending")
           IN  /\ Good(w, calls) /\ w.ambiguous /\ w.anon = None /\ w.anchor = None
               /\ w.id = t.id /\ w.key = t.key /\ w.blocks = t.blocks
               /\ w.open = t.open /\ w.shown = t.shown
  <1> DEFINE u == [t EXCEPT !.got = None, !.ambiguous = TRUE, !.anon = None, !.anchor = None]
  <1>1. t \in Workings
    BY DEF Good
  <1>2. ToolCallId(t, None, "start") = u
    BY DEF ToolCallId
  <1>3. /\ u \in Workings /\ u.got = None /\ u.ambiguous /\ u.anon = None /\ u.anchor = None
        /\ u.id = t.id /\ u.open = t.open /\ u.blocks = t.blocks /\ u.key = t.key
        /\ u.emitted = t.emitted /\ u.made = t.made /\ u.shown = t.shown /\ u.sent = t.sent
    BY <1>1 DEF Workings
  <1> HIDE DEF u
  <1>4. UpsertToolCallBlock(t, None, e, "pending") = u
    BY <1>2, <1>3 DEF UpsertToolCallBlock
  <1>5. BlocksSound(u, calls)
    BY <1>3 DEF Good, BlocksSound, WellFormed, Tells, ToolBlockId
  <1>6. Good(u, calls)
    BY <1>3, <1>5 DEF Good, Mirrors, Unsent, InTheBrowser
  <1> QED
    BY <1>3, <1>4, <1>6

(* tool_execution_start *)
LEMMA ToolStartKeeps ==
    ASSUME LiveInv, NEW e \in DOMAIN tools, ToolStart(e)
    PROVE  LiveInv' /\ Moved(e) /\ StepOf(e) /\ tools'[e].state = "running"
  <1> DEFINE tool == tools[e].tool
             t == UpsertToolCallBlock(Begun, tool, e, "pending")
  <1>0. tools[e] \in Calls /\ overlapped \in BOOLEAN
    BY InvariantTyped
  <1>1. StepOf(e) /\ tools'[e].state = "running"
    <2>1. [tools[e] EXCEPT !.state = "running"] \in Calls
      BY <1>0 DEF Calls, Ran
    <2>2. tools' = [tools EXCEPT ![e] = [tools[e] EXCEPT !.state = "running"]]
      BY DEF ToolStart
    <2>3. /\ tools' \in Seq(Calls) /\ DOMAIN tools' = DOMAIN tools /\ Len(tools') = Len(tools)
          /\ \A i \in DOMAIN tools : i # e => tools'[i] = tools[i]
          /\ tools'[e] = [tools[e] EXCEPT !.state = "running"]
      BY <2>1, <2>2, CallReplaced
    <2>4. tools'[e].tool = tools[e].tool /\ tools'[e].state = "running"
      BY <1>0, <2>3 DEF Calls
    <2>5. overlapped' \in BOOLEAN /\ (overlapped => overlapped')
      BY <1>0 DEF ToolStart
    <2> QED
      BY <2>3, <2>4, <2>5 DEF StepOf, ToolStart
  <1>2. Handle(t) /\ tools[e].state = "asked" /\ phase = "tools"
    BY DEF ToolStart
  <1>3. overlapped' <=> overlapped \/ (tool = None /\ \E i \in DOMAIN tools : RunsUnnamed(i))
    BY DEF ToolStart, RunsUnnamed
  <1>4. /\ live \in Projections /\ seen \in Copies /\ InStep
        /\ ~live.open => live.blocks = <<>>
        /\ e \in Nat /\ DOMAIN tools \subseteq Nat
        /\ \A i \in DOMAIN tools : tools[i].tool \in {None, ToolId(i)}
    BY InvariantTyped
  <1>5. BlocksSound(live, tools')
    BY <1>1, StepGoesOn, BlocksStaySound DEF LiveInv
  <1> DEFINE b == Begun
  <1>6. /\ Good(b, tools') /\ b.id = live.id /\ b.blocks = live.blocks /\ b.key = live.key
        /\ b.anchor = live.anchor /\ b.anon = live.anon /\ b.ambiguous = live.ambiguous
        /\ b.made = live.made
    BY <1>4, <1>5, BegunGood
  <1>7. e \in DOMAIN tools' /\ "pending" \in Statuses
    BY <1>1 DEF StepOf, Statuses
  <1>8. CASE tool # None
    <2>1. PICK g \in ToolIds :
             /\ Resolves(Begun, tool, g) /\ Tells(Begun, tools', g, e) /\ Fits(Begun, g, e)
      BY <1>1, <1>8, StepReady
    <2>2. /\ Ready(t, tools') /\ Stays(Begun, t) /\ t.anchor = g
          /\ Others(Begun, t, e) /\ HasCall(t, g, e, "pending")
      <3> HIDE DEF tool
      <3> QED
        BY <1>4, <1>6, <1>7, <1>8, <2>1, CallKnown
    <2> HIDE DEF t, b
    <2> QED
      BY <1>1, <1>2, <1>8, <2>1, <2>2, ShownStep
  <1>9. CASE tool = None /\ live.ambiguous
    <2> DEFINE v == UpsertToolCallBlock(Begun, None, e, "pending")
    <2>1. t = v
      BY <1>9
    <2>2. Alike(Begun, v, tools')
      BY <1>6, <1>9, UnknownKeeps
    <2> HIDE DEF t, v, b
    <2> QED
      BY <1>1, <1>2, <1>9, <2>1, <2>2, UnknownStep
  <1>10. CASE tool = None /\ ~live.ambiguous /\ live.anon # None
    <2>1. /\ Good(t, tools') /\ t.ambiguous /\ t.anon = None /\ t.anchor = None
          /\ t.id = b.id /\ t.key = b.key /\ t.blocks = b.blocks
          /\ t.open = live.open /\ t.shown = seen
      <3>1. b.shown = seen /\ b.open = live.open
        BY DEF Begun
      <3> QED
        BY <1>6, <1>10, <3>1, LostKeeps
    <2> HIDE DEF t
    <2>2. Others(b, t, e)
      BY <2>1 DEF Others
    <2>3. /\ TypeOK' /\ ProjectionSound' /\ IdsSound' /\ BlocksSound(live', tools') /\ InStep'
          /\ \A i \in DOMAIN tools : i # e => Followed(i)'
          /\ live'.anon = t.anon /\ live'.ambiguous = t.ambiguous
          /\ Others(live, live', e) /\ live'.key = live.key /\ live'.id = live.id
          /\ live'.open = t.open
      <3>1. LiveInv /\ e \in DOMAIN tools /\ StepOf(e) /\ Handle(t)
        BY <1>1, <1>2
      <3>2. Good(t, tools') /\ t.key = live.key /\ t.anchor = None /\ Others(Begun, t, e)
        BY <1>6, <2>1, <2>2
      <3> QED
        BY ONLY <3>1, <3>2, HandlerStep
    <2>4. overlapped'
      BY <1>2, <1>3, <1>10 DEF LiveInv, AnonymousSound
    <2>5. AnonymousSound'
      BY <2>1, <2>3, <2>4 DEF AnonymousSound
    <2>6. Followed(e)'
      BY <1>1, <1>10, <2>4 DEF Followed, StepOf
    <2>7. FollowedSound'
      BY <1>1, <2>3, <2>6 DEF FollowedSound, Followed, StepOf
    <2>8. seen' \in {seen, NoMessage}
      BY <1>2, <2>1 DEF Handle, Publish
    <2> QED
      BY <1>1, <2>1, <2>3, <2>5, <2>7, <2>8 DEF LiveInv, Moved
  <1>11. CASE tool = None /\ ~live.ambiguous /\ live.anon = None
    <2> DEFINE g == AnonymousId(b.made + 1)
               v == UpsertToolCallBlock(b, None, e, "pending")
    <2>1. \A i \in DOMAIN b.blocks : b.blocks[i].of # {e}
      <3>1. ASSUME NEW i \in DOMAIN live.blocks, live.blocks[i].of = {e}
            PROVE  FALSE
        <4>1. WellFormed(live, tools, live.blocks[i])
          BY DEF LiveInv, BlocksSound
        <4>2. PICK x \in DOMAIN tools : live.blocks[i].of = {x} /\ tools[x].state # "asked"
          BY <3>1, <4>1 DEF WellFormed, Tells
        <4> QED
          BY <1>2, <3>1, <4>2
      <3> QED
        BY <1>6, <3>1
    <2>2. /\ DOMAIN tools' \subseteq Nat /\ tools'[e].tool = None /\ tools'[e].state # "asked"
          /\ \A i \in DOMAIN tools' : tools'[i].tool \in {None, ToolId(i)}
      BY <1>1, <1>4, <1>11 DEF StepOf
    <2>3. ~b.ambiguous /\ b.anon = None
      BY <1>6, <1>11
    <2> HIDE DEF b
    <2>4. /\ Ready(v, tools') /\ v.id = b.id /\ v.key = b.key /\ v.ambiguous = b.ambiguous
          /\ v.anon = g /\ v.anchor = g /\ g \in ToolIds
          /\ Others(b, v, e) /\ HasCall(v, g, e, "pending")
      BY <1>4, <1>6, <1>7, <2>1, <2>2, <2>3, StartUnnamed
    <2>5. t = v
      BY <1>11 DEF b
    <2> HIDE DEF t, v, g
    <2>6. PICK c \in CallBlocks(t.blocks, g) : t.blocks[c].of = {e} /\ t.blocks[c].type = "tool_call"
      BY <2>4, <2>5, CallShows
    <2>7. /\ Good(t, tools') /\ t.key = live.key /\ ~t.ambiguous /\ t.anon = g
          /\ Others(Begun, t, e)
          /\ t.anchor # None => CallBlocks(t.blocks, t.anchor) # {}
      BY <1>6, <2>3, <2>4, <2>5, <2>6 DEF Ready, b
    <2>8. /\ TypeOK' /\ ProjectionSound' /\ IdsSound' /\ BlocksSound(live', tools') /\ InStep'
          /\ \A i \in DOMAIN tools : i # e => Followed(i)'
          /\ live'.blocks = t.blocks /\ live'.anon = t.anon /\ live'.ambiguous = t.ambiguous
          /\ Others(live, live', e) /\ live'.key = live.key /\ live'.id = live.id
          /\ live'.open = t.open
      BY <1>1, <1>2, <2>7, HandlerStep
    <2>9. \A i \in DOMAIN tools : RunsUnnamed(i)' <=> i = e
      <3>1. \A i \in DOMAIN tools : ~RunsUnnamed(i)
        BY <1>2, <1>11 DEF LiveInv, AnonymousSound
      <3> QED
        BY <1>1, <1>11, <3>1 DEF StepOf, RunsUnnamed
    <2>10. AnonymousSound'
      <3>1. g # None
        BY <2>4, LiveTurnAssumption
      <3>2. \E x \in DOMAIN tools' :
                /\ \A i \in DOMAIN tools' : RunsUnnamed(i)' <=> i = x
                /\ \E d \in CallBlocks(live'.blocks, live'.anon) : live'.blocks[d].of = {x}
        BY <1>7, <2>6, <2>7, <2>8, <2>9, <1>1 DEF StepOf
      <3> QED
        BY <2>7, <2>8, <3>1, <3>2 DEF AnonymousSound
    <2>11. Followed(e)'
      <3>1. c \in ShownAs(e)' /\ live'.blocks[c].type = "tool_call"
        BY <2>6, <2>8 DEF ShownAs, CallBlocks
      <3> QED
        BY <1>1, <3>1 DEF Followed
    <2>12. FollowedSound'
      BY <1>1, <2>8, <2>11 DEF FollowedSound, Followed, StepOf
    <2> QED
      BY <1>1, <2>4, <2>5, <2>8, <2>10, <2>12 DEF LiveInv, Moved, Ready
  <1> QED
    BY <1>1, <1>8, <1>9, <1>10, <1>11

LEMMA NewTyped ==
    ASSUME NEW id \in Nat, NEW made \in Nat
    PROVE  LET p == NewLive(id, made)
           IN  /\ p \in Projections /\ \A calls : BlocksSound(p, calls)
               /\ p.id = id /\ p.made = made /\ ~p.open /\ p.blocks = <<>> /\ p.key = NoKeys
               /\ p.anchor = None /\ p.anon = None /\ ~p.ambiguous
  <1> DEFINE p == NewLive(id, made)
  <1>1. <<>> \in Emissions
    <2>1. <<>> \in [{} -> 0..MaxChunks]
      OBVIOUS
    <2> QED
      BY <2>1 DEF Emissions
  <1>2. NoKeys \in Keys
    BY DEF NoKeys, Keys
  <1>3. /\ p.id = id /\ p.made = made /\ ~p.open /\ p.blocks = <<>> /\ p.key = NoKeys
        /\ p.emitted = <<>> /\ p.anchor = None /\ p.anon = None /\ ~p.ambiguous
    BY DEF NewLive
  <1>4. p \in Projections
    BY <1>1, <1>2 DEF NewLive, Projections
  <1>5. ASSUME NEW calls
        PROVE  BlocksSound(p, calls)
    BY <1>3 DEF BlocksSound
  <1> QED
    BY <1>3, <1>4, <1>5

LEMMA InitKeeps ==
    ASSUME Init
    PROVE  LiveInv
  <1>1. /\ live \in Projections /\ BlocksSound(live, tools)
        /\ live.id = 1 /\ live.made = 0 /\ ~live.open /\ live.blocks = <<>> /\ live.key = NoKeys
        /\ live.anchor = None /\ live.anon = None /\ ~live.ambiguous
    BY NewTyped DEF Init
  <1>2. live \in [id : Nat, open : BOOLEAN, blocks : Seq(Blocks),
                  key : [TextLike -> BlockIds \union {None}],
                  emitted : UNION {[T -> 0..MaxChunks] : T \in SUBSET {b.tool : b \in ToSet(live.blocks)}},
                  anchor : ToolIds \union {None}, anon : ToolIds \union {None},
                  ambiguous : BOOLEAN, made : Nat]
    BY <1>1, TypedAgain
  <1>3. TypeOK
    <2>1. /\ MaxTurns \in Nat /\ MaxMessages \in Nat /\ MaxDeltas \in Nat /\ MaxTools \in Nat
          /\ MaxChunks \in Nat
      BY LiveTurnAssumption
    <2>2. seen \in [id : Nat, blocks : Seq(Blocks)]
      BY DEF Init, NoMessage
    <2>3. /\ tools \in Seq([tool : ToolIds \union {None}, state : Ran, chunks : 0..MaxChunks])
          /\ before + Len(tools) <= MaxTools
      BY <2>1 DEF Init
    <2>4. {linked, missed, cut, overlapped} \subseteq BOOLEAN
      BY DEF Init
    <2>5. /\ phase \in {"idle", "saying", "tools"}
          /\ turn \in 0..MaxTurns /\ said \in 0..MaxMessages /\ deltas \in 0..MaxDeltas
          /\ before \in Nat
      BY <2>1 DEF Init
    <2> QED
      BY <1>2, <2>2, <2>3, <2>4, <2>5 DEF TypeOK
  <1>4. ProjectionSound
    BY <1>1 DEF ProjectionSound, Init
  <1>5. IdsSound
    BY <1>1 DEF IdsSound, Init, NoKeys
  <1>6. AnonymousSound /\ FollowedSound /\ InStep
    BY <1>1 DEF AnonymousSound, FollowedSound, InStep, Init
  <1> QED
    BY <1>1, <1>3, <1>4, <1>5, <1>6 DEF LiveInv

(* agent_end *)
LEMMA AgentEndKeeps ==
    ASSUME LiveInv, AgentEnd
    PROVE  LiveInv'
  <1>1. /\ live \in Projections /\ seen \in Copies
        /\ linked \in BOOLEAN /\ missed \in BOOLEAN /\ live.id + 1 \in Nat /\ live.made \in Nat
    BY InvariantTyped DEF Projections
  <1>2. live' = NewLive(live.id + 1, live.made)
    BY DEF AgentEnd
  <1>3. /\ live' \in Projections /\ BlocksSound(live', tools')
        /\ live'.id = live.id + 1 /\ live'.made = live.made
        /\ ~live'.open /\ live'.blocks = <<>> /\ live'.key = NoKeys
        /\ live'.anchor = None /\ live'.anon = None /\ ~live'.ambiguous
    BY <1>1, <1>2, NewTyped
  <1>4. seen' \in Copies /\ missed' \in BOOLEAN /\ linked' = linked
    <2> DEFINE t == Flushed(Begun)
    <2>1. t.shown \in Copies
      <3>1. Begun \in Workings
        BY <1>1, BegunTyped
      <3> DEFINE b == Begun
                 event == [type |-> "message_upsert", id |-> b.id, blocks |-> b.blocks]
      <3>2. Folded(b.shown, event) = [id |-> b.id, blocks |-> b.blocks]
        BY <3>1, FoldedTyped DEF Workings
      <3> HIDE DEF b
      <3>3. Folded(b.shown, event) \in Copies /\ b.shown \in Copies
        BY <3>1, <3>2 DEF Workings, Copies, b
      <3>4. t.shown = Folded(b.shown, event) \/ t.shown = b.shown
        <4>1. b \in Workings
          BY <3>1 DEF b
        <4>2. Emit(b, event).shown = Folded(b.shown, event)
          BY <4>1 DEF Emit, Workings
        <4>3. t = b \/ t = Emit(b, event)
          BY DEF Flushed, b
        <4> QED
          BY <4>2, <4>3
      <3> QED
        BY <3>3, <3>4
    <2>2. NoMessage \in Copies
      BY DEF NoMessage, Copies
    <2>3. Publish(t)
      BY DEF AgentEnd
    <2> HIDE DEF t
    <2> QED
      BY <1>1, <2>1, <2>2, <2>3 DEF Publish
  <1>5. TypeOK'
    <2>1. (live \in [id : Nat, open : BOOLEAN, blocks : Seq(Blocks),
                 key : [TextLike -> BlockIds \union {None}],
                 emitted : UNION {[T -> 0..MaxChunks] : T \in SUBSET {b.tool : b \in ToSet(live.blocks)}},
                 anchor : ToolIds \union {None}, anon : ToolIds \union {None},
                 ambiguous : BOOLEAN, made : Nat])'
      BY <1>3, TypedAgain
    <2>2. seen' \in [id : Nat, blocks : Seq(Blocks)]
      BY <1>4 DEF Copies
    <2>3. {linked, missed, cut, overlapped}' \subseteq BOOLEAN
      BY <1>1, <1>4 DEF AgentEnd, TurnOver, LiveInv, TypeOK
    <2> QED
      BY <2>1, <2>2, <2>3 DEF AgentEnd, TurnOver, LiveInv, TypeOK
  <1>6. ProjectionSound'
    BY <1>2, <1>3 DEF ProjectionSound
  <1>7. IdsSound'
    BY <1>3 DEF IdsSound, LiveInv, NoKeys, AgentEnd, TurnOver
  <1>8. AnonymousSound' /\ FollowedSound' /\ InStep'
    BY <1>3 DEF AnonymousSound, FollowedSound, InStep, AgentEnd, TurnOver
  <1> QED
    BY <1>3, <1>5, <1>6, <1>7, <1>8 DEF LiveInv

(* message_start *)
LEMMA MessageStartKeeps ==
    ASSUME LiveInv, MessageStart
    PROVE  LiveInv'
  <1>0. /\ live \in Projections /\ seen \in Copies /\ InStep
        /\ linked \in BOOLEAN /\ missed \in BOOLEAN
        /\ ~live.open => live.blocks = <<>>
    BY InvariantTyped
  <1>1. /\ live' = [live EXCEPT !.key = NoKeys] /\ phase' = "saying" /\ linked' = linked
        /\ deltas' = deltas /\ said' = said + 1 /\ said < MaxMessages
    BY DEF MessageStart
  <1>2. /\ live' \in Projections /\ live'.key = NoKeys
        /\ live'.id = live.id /\ live'.open = live.open /\ live'.blocks = live.blocks
        /\ live'.emitted = live.emitted /\ live'.anchor = live.anchor /\ live'.anon = live.anon
        /\ live'.ambiguous = live.ambiguous /\ live'.made = live.made
    <2>1. NoKeys \in Keys
      BY DEF NoKeys, Keys
    <2> QED
      BY <1>0, <1>1, <2>1 DEF Projections
  <1>3. \A calls : BlocksSound(live, calls) => BlocksSound(live', calls)
    BY <1>2 DEF BlocksSound, WellFormed, Tells, ToolBlockId
  <1>4. MaxMessages \in Nat /\ MaxTurns \in Nat
    BY LiveTurnAssumption
  <1>5. \/ /\ phase = "idle" /\ turn < MaxTurns /\ turn' = turn + 1
           /\ before' = before + Len(tools) /\ tools' = <<>> /\ ~overlapped' /\ ~cut'
           /\ overlapped' \in BOOLEAN /\ cut' \in BOOLEAN
           /\ seen' = NoMessage /\ missed' = FALSE
        \/ /\ phase = "tools"
           /\ UNCHANGED <<turn, before, tools, overlapped, cut, seen, missed>>
    BY DEF MessageStart
  <1>6. CASE /\ phase = "idle" /\ turn < MaxTurns /\ turn' = turn + 1
             /\ before' = before + Len(tools) /\ tools' = <<>> /\ ~overlapped' /\ ~cut'
             /\ overlapped' \in BOOLEAN /\ cut' \in BOOLEAN
             /\ seen' = NoMessage /\ missed' = FALSE
    <2>1. live.id \in Nat /\ live.made \in Nat /\ live = NewLive(live.id, live.made)
      BY <1>0, <1>6 DEF LiveInv, ProjectionSound, Projections
    <2>2. /\ BlocksSound(live, tools') /\ ~live.open /\ live.blocks = <<>>
          /\ live.anchor = None /\ live.anon = None /\ ~live.ambiguous
      BY <2>1, NewTyped
    <2>3. BlocksSound(live', tools')
      BY <1>3, <2>2
    <2>4. TypeOK'
      <3>1. (live \in [id : Nat, open : BOOLEAN, blocks : Seq(Blocks),
                   key : [TextLike -> BlockIds \union {None}],
                   emitted : UNION {[T -> 0..MaxChunks] : T \in SUBSET {b.tool : b \in ToSet(live.blocks)}},
                   anchor : ToolIds \union {None}, anon : ToolIds \union {None},
                   ambiguous : BOOLEAN, made : Nat])'
        BY <1>2, <2>3, TypedAgain
      <3>2. seen' \in [id : Nat, blocks : Seq(Blocks)]
        BY <1>6 DEF NoMessage
      <3>3. {linked, missed, cut, overlapped}' \subseteq BOOLEAN
        BY <1>0, <1>1, <1>6
      <3>4. /\ before' \in Nat /\ before' + Len(tools') <= MaxTools
            /\ (tools \in Seq([tool : ToolIds \union {None}, state : Ran, chunks : 0..MaxChunks]))'
        BY <1>6 DEF LiveInv, TypeOK
      <3>5. /\ phase' \in {"idle", "saying", "tools"}
            /\ turn' \in 0..MaxTurns /\ said' \in 0..MaxMessages /\ deltas' \in 0..MaxDeltas
        <4>1. turn \in Nat /\ turn < MaxTurns /\ turn' = turn + 1
          BY <1>6 DEF LiveInv, TypeOK
        <4>2. turn' \in 0..MaxTurns
          BY ONLY <1>4, <4>1
        <4>3. deltas \in 0..MaxDeltas /\ said \in 0..MaxMessages
          BY DEF LiveInv, TypeOK
        <4>4. said' \in 0..MaxMessages
          BY ONLY <1>1, <1>4, <4>3
        <4> QED
          BY <1>1, <4>2, <4>3, <4>4
      <3> QED
        BY <3>1, <3>2, <3>3, <3>4, <3>5 DEF TypeOK
    <2>5. ProjectionSound'
      BY <1>1, <1>2, <2>2 DEF ProjectionSound
    <2>6. IdsSound'
      BY <1>2, <1>6, <2>2 DEF IdsSound, NoKeys
    <2>7. AnonymousSound' /\ FollowedSound' /\ InStep'
      BY <1>2, <1>6, <2>2 DEF AnonymousSound, FollowedSound, InStep
    <2> QED
      BY <2>3, <2>4, <2>5, <2>6, <2>7 DEF LiveInv
  <1>7. CASE /\ phase = "tools"
             /\ UNCHANGED <<turn, before, tools, overlapped, cut, seen, missed>>
    <2>1. BlocksSound(live', tools')
      BY <1>3, <1>7 DEF LiveInv
    <2>2. TypeOK'
      <3>1. (live \in [id : Nat, open : BOOLEAN, blocks : Seq(Blocks),
                   key : [TextLike -> BlockIds \union {None}],
                   emitted : UNION {[T -> 0..MaxChunks] : T \in SUBSET {b.tool : b \in ToSet(live.blocks)}},
                   anchor : ToolIds \union {None}, anon : ToolIds \union {None},
                   ambiguous : BOOLEAN, made : Nat])'
        BY <1>2, <2>1, TypedAgain
      <3>2. said' \in 0..MaxMessages
        BY <1>1, <1>4 DEF LiveInv, TypeOK
      <3> QED
        BY <1>1, <1>7, <3>1, <3>2 DEF LiveInv, TypeOK
    <2>3. ProjectionSound'
      BY <1>0, <1>1, <1>2 DEF ProjectionSound
    <2>4. IdsSound'
      BY <1>2, <1>7 DEF IdsSound, NoKeys, LiveInv
    <2>5. InStep'
      BY <1>0, <1>2, <1>7 DEF InStep, InTheBrowser
    <2>6. AnonymousSound'
      BY <1>2, <1>7 DEF LiveInv, AnonymousSound, RunsUnnamed
    <2>7. FollowedSound'
      BY <1>2, <1>7 DEF LiveInv, FollowedSound, ShownAs, Closed
    <2> QED
      BY <2>1, <2>2, <2>3, <2>4, <2>5, <2>6, <2>7 DEF LiveInv
  <1> QED
    BY <1>5, <1>6, <1>7

(* What a delta adds to the live message *)
Said(type) ==
    /\ live'.id = live.id
    /\ \A other \in TextLike \ {type} : live'.key[other] = live.key[other]
    /\ \E k \in DOMAIN live'.blocks :
          Adds(live, live', type, <<Len(tools), deltas + 1>>, k)

(* message_update *)
LEMMA SayKeeps ==
    ASSUME LiveInv, NEW type \in TextLike, Say(type)
    PROVE  LiveInv' /\ live'.open /\ Said(type)
  <1> DEFINE delta == <<Len(tools), deltas + 1>>
             b == Begun
             t == AppendAssistantBlockDelta(b, type, delta)
  <1>1. /\ live \in Projections /\ seen \in Copies /\ InStep
        /\ linked \in BOOLEAN /\ missed \in BOOLEAN /\ overlapped \in BOOLEAN
        /\ ~live.open => live.blocks = <<>>
    BY InvariantTyped
  <1>2. /\ Handle(t) /\ phase = "saying" /\ deltas' = deltas + 1 /\ deltas < MaxDeltas
        /\ UNCHANGED <<phase, turn, said, before, tools, entries, cut, overlapped>>
    BY DEF Say
  <1>3. BlocksSound(live, tools)
    BY DEF LiveInv
  <1>4. /\ Good(b, tools) /\ b.id = live.id /\ b.blocks = live.blocks /\ b.key = live.key
        /\ b.anchor = live.anchor /\ b.anon = live.anon /\ b.ambiguous = live.ambiguous
    BY <1>1, <1>3, BegunGood
  <1>5. delta \in Nat \X Nat
    BY DEF LiveInv, TypeOK
  <1>6. b.key[type] # None => TextKey(b, type, b.key[type])
    BY <1>4 DEF LiveInv, IdsSound, TextKey
  <1> HIDE DEF b, delta
  <1>7. /\ Good(t, tools) /\ t.open /\ SameTools(b, t)
        /\ t.anchor = b.anchor /\ t.anon = b.anon /\ t.ambiguous = b.ambiguous
        /\ t.id = b.id /\ TextKey(b, type, t.key[type])
        /\ \A other \in TextLike \ {type} : t.key[other] = b.key[other]
        /\ \E k \in DOMAIN t.blocks : Adds(b, t, type, delta, k)
    BY <1>4, <1>5, <1>6, AppendKeeps
  <1> HIDE DEF t
  <1>8. /\ live' \in Projections /\ BlocksSound(live', tools)
        /\ live'.id = t.id /\ live'.blocks = t.blocks /\ live'.open = t.open
        /\ live'.key = t.key /\ live'.anchor = t.anchor
        /\ live'.anon = t.anon /\ live'.ambiguous = t.ambiguous
        /\ seen' \in Copies /\ missed' \in BOOLEAN /\ linked' \in BOOLEAN
        /\ InStep' /\ (~live'.open => live'.blocks = <<>>)
    BY <1>1, <1>2, <1>7, Handled
  <1>9. tools' = tools /\ phase' = phase /\ overlapped' = overlapped
    BY <1>2
  <1>10. TypeOK'
    <2>1. (live \in [id : Nat, open : BOOLEAN, blocks : Seq(Blocks),
                 key : [TextLike -> BlockIds \union {None}],
                 emitted : UNION {[T -> 0..MaxChunks] : T \in SUBSET {c.tool : c \in ToSet(live.blocks)}},
                 anchor : ToolIds \union {None}, anon : ToolIds \union {None},
                 ambiguous : BOOLEAN, made : Nat])'
      BY <1>8, TypedAgain
    <2>2. seen' \in [id : Nat, blocks : Seq(Blocks)]
      BY <1>8 DEF Copies
    <2>3. {linked, missed, cut, overlapped}' \subseteq BOOLEAN
      BY <1>2, <1>8 DEF LiveInv, TypeOK
    <2>4. deltas' \in 0..MaxDeltas
      <3>1. MaxDeltas \in Nat
        BY LiveTurnAssumption
      <3> QED
        BY <1>2, <3>1 DEF LiveInv, TypeOK
    <2> QED
      BY <1>2, <2>1, <2>2, <2>3, <2>4 DEF LiveInv, TypeOK
  <1>11. ProjectionSound'
    BY <1>2, <1>8 DEF ProjectionSound
  <1>12. \A i \in DOMAIN live.blocks : live.blocks[i].type \notin TextLike =>
            i \in DOMAIN live'.blocks /\ live'.blocks[i] = live.blocks[i]
    BY <1>4, <1>7, <1>8 DEF SameTools
  <1>13. \A tool : \A c \in CallBlocks(live.blocks, tool) :
            c \in CallBlocks(live'.blocks, tool) /\ live'.blocks[c] = live.blocks[c]
    BY <1>12 DEF CallBlocks, TextLike
  <1>14. \A e : \A c \in ShownAs(e) : c \in ShownAs(e)' /\ live'.blocks[c] = live.blocks[c]
    <2>1. ASSUME NEW e, NEW c \in ShownAs(e)
          PROVE  c \in ShownAs(e)' /\ live'.blocks[c] = live.blocks[c]
      <3>1. c \in DOMAIN live.blocks /\ e \in live.blocks[c].of
        BY DEF ShownAs
      <3>2. live.blocks[c].type \notin TextLike
        BY <1>3, <3>1 DEF BlocksSound, WellFormed
      <3> QED
        BY <1>12, <3>1, <3>2 DEF ShownAs
    <2> QED
      BY <2>1
  <1>15. IdsSound'
    <2>1. \A other \in TextLike :
            live'.key[other] \in ({live'.id} \X {other} \X Nat) \union {None}
      <3>1. ASSUME NEW other \in TextLike
            PROVE  live'.key[other] \in ({live'.id} \X {other} \X Nat) \union {None}
        <4>1. CASE other = type
          BY <1>7, <1>8, <4>1 DEF TextKey
        <4>2. CASE other # type
          <5>1. live'.key[other] = live.key[other] /\ live'.id = live.id
            BY <1>4, <1>7, <1>8, <4>2
          <5> QED
            BY <5>1 DEF LiveInv, IdsSound
        <4> QED
          BY <4>1, <4>2
      <3> QED
        BY <3>1
    <2>2. live'.anchor # None => CallBlocks(live'.blocks, live'.anchor) # {}
      BY <1>4, <1>7, <1>8, <1>13 DEF LiveInv, IdsSound
    <2> QED
      BY <1>9, <2>1, <2>2 DEF LiveInv, IdsSound
  <1>16. AnonymousSound'
    <2>1. live'.anon = live.anon /\ live'.ambiguous = live.ambiguous
      BY <1>4, <1>7, <1>8
    <2> QED
      BY <1>9, <1>13, <2>1 DEF LiveInv, AnonymousSound, RunsUnnamed
  <1>17. FollowedSound'
    <2>1. \A e : Closed(e) => Closed(e)'
      BY <1>14 DEF Closed
    <2> QED
      BY <1>9, <1>14, <2>1 DEF LiveInv, FollowedSound
  <1>18. Said(type)
    <2>1. PICK k \in DOMAIN t.blocks : Adds(b, t, type, delta, k)
      BY <1>7
    <2>2. Adds(live, live', type, delta, k)
      BY <1>4, <1>8, <2>1 DEF Adds
    <2> QED
      BY <1>4, <1>7, <1>8, <2>2 DEF Said, delta
  <1> QED
    BY <1>7, <1>8, <1>9, <1>10, <1>11, <1>15, <1>16, <1>17, <1>18 DEF LiveInv

(* The end of a message *)
LEMMA MessageEndKeeps ==
    ASSUME LiveInv, NEW n \in 0..MaxTools, NEW ids \in [1..n -> BOOLEAN], MessageEnd(n, ids)
    PROVE  LiveInv'
  <1> DEFINE asked == [i \in 1..n |-> IF ids[i] THEN ToolId(Len(tools) + i) ELSE None]
             added == [i \in 1..n |-> [tool |-> asked[i], state |-> "asked", chunks |-> 0]]
  <1>1. /\ live \in Projections /\ overlapped \in BOOLEAN /\ tools \in Seq(Calls)
        /\ DOMAIN tools \subseteq Nat
        /\ \A e \in DOMAIN tools : tools[e] \in Calls /\ tools[e].tool \in {None, ToolId(e)}
    BY InvariantTyped
  <1>2. n \in Nat /\ Len(tools) \in Nat /\ MaxChunks \in Nat
    BY <1>1, LiveTurnAssumption
  <1>3. /\ phase = "saying" /\ phase' = "tools" /\ before + Len(tools) + n <= MaxTools
        /\ UNCHANGED <<turn, said, deltas, before, cut, overlapped, live, linked, seen, missed>>
    BY DEF MessageEnd, browser
  <1>4. tools' = tools \o added
    BY DEF MessageEnd
  <1>5. \A i \in 1..n : added[i].tool \in {None, ToolId(Len(tools) + i)} /\ added[i].state = "asked"
    OBVIOUS
  <1>6. added \in Seq(Calls) /\ Len(added) = n
    <2>1. \A i \in 1..n : asked[i] \in ToolIds \union {None}
      <3>1. \A i \in 1..n : ToolId(Len(tools) + i) \in ToolIds
        BY <1>2, ToolIdsDiffer
      <3> QED
        BY <3>1
    <2>2. 0 \in 0..MaxChunks
      BY <1>2
    <2> HIDE DEF asked
    <2>3. added \in [1..n -> Calls]
      BY <2>1, <2>2 DEF Calls, Ran
    <2> HIDE DEF added
    <2> QED
      BY <1>2, <2>3, LenProperties
  <1> HIDE DEF asked, added
  <1>7. /\ tools' \in Seq(Calls) /\ Len(tools') = Len(tools) + n
        /\ \A e \in DOMAIN tools : e \in DOMAIN tools' /\ tools'[e] = tools[e]
        /\ \A e \in DOMAIN tools' : e \notin DOMAIN tools =>
              e - Len(tools) \in 1..n /\ tools'[e] = added[e - Len(tools)]
    <2> DEFINE l == tools \o added
    <2>1. /\ l \in Seq(Calls) /\ Len(l) = Len(tools) + n
          /\ \A e \in 1..(Len(tools) + n) :
               l[e] = IF e <= Len(tools) THEN tools[e] ELSE added[e - Len(tools)]
      <3>1. tools \in Seq(Calls) /\ added \in Seq(Calls) /\ Len(added) = n
        BY <1>1, <1>6
      <3> QED
        BY ONLY <3>1, ConcatProperties
    <2>2. DOMAIN l = 1..(Len(tools) + n) /\ DOMAIN tools = 1..Len(tools)
      BY <1>1, <2>1, LenProperties
    <2> HIDE DEF l
    <2>3. \A e \in DOMAIN tools : e \in DOMAIN l /\ l[e] = tools[e]
      BY <1>2, <2>1, <2>2
    <2>4. \A e \in DOMAIN l : e \notin DOMAIN tools =>
              e - Len(tools) \in 1..n /\ l[e] = added[e - Len(tools)]
      BY <1>2, <2>1, <2>2
    <2> QED
      BY <1>4, <2>1, <2>3, <2>4 DEF l
  <1>8. \A e \in DOMAIN tools' : e \notin DOMAIN tools =>
           tools'[e].tool \in {None, ToolId(e)} /\ tools'[e].state = "asked"
    <2>1. ASSUME NEW e \in DOMAIN tools', e \notin DOMAIN tools
          PROVE  tools'[e].tool \in {None, ToolId(e)} /\ tools'[e].state = "asked"
      <3>1. e - Len(tools) \in 1..n /\ tools'[e] = added[e - Len(tools)]
        BY <1>7, <2>1
      <3>2. Len(tools) + (e - Len(tools)) = e
        <4>1. e \in Int
          BY <1>7
        <4> QED
          BY <1>2, <4>1
      <3>3. added[e - Len(tools)].tool \in {None, ToolId(Len(tools) + (e - Len(tools)))}
            /\ added[e - Len(tools)].state = "asked"
        BY <1>5, <3>1
      <3> QED
        BY <3>1, <3>2, <3>3
    <2> QED
      BY <2>1
  <1>9. BlocksSound(live', tools')
    <2>1. GoesOn(tools, tools')
      BY <1>7 DEF GoesOn
    <2>2. BlocksSound(live, tools')
      BY <2>1, BlocksStaySound DEF LiveInv
    <2> QED
      BY <1>3, <2>2
  <1>10. TypeOK'
    <2>1. before + Len(tools') <= MaxTools
      <3>1. before \in Nat /\ MaxTools \in Nat
        BY LiveTurnAssumption DEF LiveInv, TypeOK
      <3> QED
        BY <1>2, <1>3, <1>7, <3>1
    <2>2. (tools \in Seq([tool : ToolIds \union {None}, state : Ran, chunks : 0..MaxChunks]))'
      BY <1>7 DEF Calls
    <2> QED
      BY <1>3, <2>1, <2>2 DEF LiveInv, TypeOK
  <1>11. ProjectionSound'
    BY <1>3 DEF ProjectionSound, LiveInv
  <1>12. IdsSound'
    <2>1. \A e \in DOMAIN tools' : tools'[e].tool \in {None, ToolId(e)}
      BY <1>1, <1>7, <1>8
    <2> QED
      BY <1>3, <2>1 DEF LiveInv, IdsSound
  <1>13. \A e \in DOMAIN tools' : RunsUnnamed(e)' <=> e \in DOMAIN tools /\ RunsUnnamed(e)
    BY <1>7, <1>8 DEF RunsUnnamed
  <1>14. AnonymousSound'
    <2>1. AnonymousSound
      BY DEF LiveInv
    <2>2. live'.ambiguous => overlapped' /\ live'.anon = None
      BY <1>3, <2>1 DEF AnonymousSound
    <2>3. CASE live.anon = None
      <3>1. ~live.ambiguous => \A e \in DOMAIN tools : ~RunsUnnamed(e)
        BY <1>3, <2>1, <2>3 DEF AnonymousSound
      <3> QED
        BY <1>3, <1>13, <2>2, <2>3, <3>1 DEF AnonymousSound
    <2>4. CASE live.anon # None
      <3>1. ASSUME ~live.ambiguous
            PROVE  \E x \in DOMAIN tools' :
                      /\ \A i \in DOMAIN tools' : RunsUnnamed(i)' <=> i = x
                      /\ \E c \in CallBlocks(live.blocks, live.anon) : live.blocks[c].of = {x}
        <4>1. PICK x \in DOMAIN tools :
                      /\ \A i \in DOMAIN tools : RunsUnnamed(i) <=> i = x
                      /\ \E c \in CallBlocks(live.blocks, live.anon) : live.blocks[c].of = {x}
          BY <1>3, <2>1, <2>4, <3>1 DEF AnonymousSound
        <4> QED
          BY <1>7, <1>13, <4>1
      <3> QED
        BY <1>3, <2>2, <2>4, <3>1 DEF AnonymousSound
    <2> QED
      BY <2>3, <2>4
  <1>15. FollowedSound'
    <2>1. \A e \in DOMAIN tools : Followed(e)
      BY <1>3 DEF LiveInv, FollowedSound, Followed
    <2>2. \A e \in DOMAIN tools' : Followed(e)'
      <3>1. ASSUME NEW e \in DOMAIN tools'
            PROVE  Followed(e)'
        <4>1. CASE e \in DOMAIN tools
          BY <1>3, <1>7, <2>1, <4>1 DEF Followed, ShownAs, Closed
        <4>2. CASE e \notin DOMAIN tools
          BY <1>8, <4>2 DEF Followed
        <4> QED
          BY <4>1, <4>2
      <3> QED
        BY <3>1
    <2> QED
      BY <2>2 DEF FollowedSound, Followed
  <1>16. InStep'
    BY <1>3 DEF LiveInv, InStep, InTheBrowser
  <1> QED
    BY <1>9, <1>10, <1>11, <1>12, <1>14, <1>15, <1>16 DEF LiveInv

(* The stream opens or ends, or nothing happens. *)
LEMMA StreamStepKeeps ==
    ASSUME LiveInv, Disconnect \/ Connect \/ UNCHANGED vars
    PROVE  LiveInv'
  <1>1. /\ UNCHANGED <<phase, turn, said, deltas, before, tools, cut, overlapped, live, seen, missed>>
        /\ linked' \in BOOLEAN
    BY DEF Disconnect, Connect, vars, sdk, browser, LiveInv, TypeOK
  <1>2. TypeOK'
    BY <1>1 DEF LiveInv, TypeOK
  <1>3. ProjectionSound' /\ IdsSound' /\ BlocksSound(live', tools')
    BY <1>1 DEF LiveInv, ProjectionSound, IdsSound
  <1>4. AnonymousSound'
    BY <1>1 DEF LiveInv, AnonymousSound, RunsUnnamed
  <1>5. FollowedSound'
    BY <1>1 DEF LiveInv, FollowedSound, ShownAs, Closed
  <1>6. InStep'
    BY <1>1 DEF LiveInv, InStep, InTheBrowser
  <1> QED
    BY <1>2, <1>3, <1>4, <1>5, <1>6 DEF LiveInv

-------------------------------------------------------------------------------
(* Theorems *)

(* The live projection stays typed and sound: block ids are told apart, each *)
(* block of a tool is of the one execution its id stands for, a number the   *)
(* controller made stands for the one tool without an id that runs, and a    *)
(* browser that missed nothing has what is projected.                        *)
THEOREM LiveInvariant == Spec => []LiveInv
  <1>1. Init => LiveInv
    BY InitKeeps
  <1>2. LiveInv /\ [Next]_vars => LiveInv'
    <2> SUFFICES ASSUME LiveInv, [Next]_vars
                 PROVE  LiveInv'
      OBVIOUS
    <2>1. CASE MessageStart
      BY <2>1, MessageStartKeeps
    <2>2. ASSUME NEW type \in TextLike, Say(type)
          PROVE  LiveInv'
      BY <2>2, SayKeeps
    <2>3. ASSUME NEW n \in 0..MaxTools, NEW ids \in [1..n -> BOOLEAN], MessageEnd(n, ids)
          PROVE  LiveInv'
      BY <2>3, MessageEndKeeps
    <2>4. ASSUME NEW e \in DOMAIN tools, ToolStart(e) \/ ToolUpdate(e) \/ ToolEnd(e)
          PROVE  LiveInv'
      BY <2>4, ToolStartKeeps, ToolUpdateKeeps, ToolEndKeeps
    <2>5. CASE AgentEnd
      BY <2>5, AgentEndKeeps
    <2>6. CASE Disconnect \/ Connect \/ UNCHANGED vars
      BY <2>6, StreamStepKeeps
    <2> QED
      BY <2>1, <2>2, <2>3, <2>4, <2>5, <2>6 DEF Next
  <1> QED
    BY <1>1, <1>2, PTL DEF Spec

(* A browser that missed no event of the message shows what the controller   *)
(* projects, block by block and in that order, with the part of each running *)
(* result that was emitted: however texts, tools and partial results         *)
(* interleave, and whenever its stream breaks and is opened again.           *)
THEOREM BrowserInStep == Spec => []InStep
  <1>1. LiveInv => InStep
    BY DEF LiveInv
  <1> QED
    BY <1>1, LiveInvariant, PTL

(* One block for the call and one for the result of each execution *)
LEMMA OneBlockEach ==
    ASSUME LiveInv, NEW e, NEW i \in ShownAs(e), NEW j \in ShownAs(e)
    PROVE  /\ live.blocks[i].tool = live.blocks[j].tool
           /\ live.blocks[i].type = live.blocks[j].type => i = j
  <1>1. i \in DOMAIN live.blocks /\ j \in DOMAIN live.blocks /\ BlocksSound(live, tools)
    BY DEF ShownAs, LiveInv
  <1>2. ASSUME NEW k \in ShownAs(e)
        PROVE  live.blocks[k].of = {e} /\ live.blocks[k].type \notin TextLike
    <2>1. k \in DOMAIN live.blocks /\ e \in live.blocks[k].of
      BY DEF ShownAs
    <2>2. WellFormed(live, tools, live.blocks[k])
      BY <1>1, <2>1 DEF BlocksSound
    <2> QED
      BY <2>1, <2>2 DEF WellFormed
  <1>3. live.blocks[i].tool = live.blocks[j].tool
    <2>1. OfTools(live.blocks[i], live.blocks[j]) /\ live.blocks[i].of = live.blocks[j].of
      BY <1>2 DEF OfTools
    <2> QED
      BY <1>1, <2>1 DEF BlocksSound
  <1>4. ASSUME live.blocks[i].type = live.blocks[j].type
        PROVE  i = j
    <2>1. WellFormed(live, tools, live.blocks[i]) /\ WellFormed(live, tools, live.blocks[j])
      BY <1>1 DEF BlocksSound
    <2>2. live.blocks[i].id = live.blocks[j].id
      BY <1>2, <1>3, <1>4, <2>1 DEF WellFormed
    <2> QED
      BY <1>1, <2>2 DEF BlocksSound
  <1> QED
    BY <1>3, <1>4

(* No block of the live message tells of two executions; each tool with an   *)
(* id, and each without one unless two of those overlapped, is shown by one  *)
(* call and at most one result, which agree once it ended; and an extension  *)
(* that prompts is anchored at a call that is shown.                         *)
THEOREM ToolsAreShownOnce == Spec => []ToolsShownOnce
  <1>1. LiveInv => ToolsShownOnce
    <2> SUFFICES ASSUME LiveInv
                 PROVE  ToolsShownOnce
      OBVIOUS
    <2>1. \A b \in ToSet(live.blocks) : Cardinality(b.of) <= 1
      <3>1. ASSUME NEW i \in DOMAIN live.blocks
            PROVE  Cardinality(live.blocks[i].of) <= 1
        <4>1. WellFormed(live, tools, live.blocks[i])
          BY DEF LiveInv, BlocksSound
        <4>2. live.blocks[i].of = {} \/ \E e \in DOMAIN tools : live.blocks[i].of = {e}
          BY <4>1 DEF WellFormed
        <4>3. CASE live.blocks[i].of = {}
          <5>1. Cardinality(live.blocks[i].of) = 0
            BY <4>3, FS_EmptySet
          <5> QED
            BY <5>1
        <4>4. ASSUME NEW e \in DOMAIN tools, live.blocks[i].of = {e}
              PROVE  Cardinality(live.blocks[i].of) <= 1
          <5>1. Cardinality(live.blocks[i].of) = 1
            BY <4>4, FS_Singleton
          <5> QED
            BY <5>1
        <4> QED
          BY <4>2, <4>3, <4>4
      <3> QED
        BY <3>1 DEF ToSet
    <2>2. ASSUME live.open, NEW e \in DOMAIN tools, tools[e].tool # None \/ ~overlapped,
                 tools[e].state # "asked"
          PROVE  LET calls == {i \in ShownAs(e) : live.blocks[i].type = "tool_call"}
                     results == {i \in ShownAs(e) : live.blocks[i].type = "tool_result"}
                 IN  /\ Cardinality(calls) = 1 /\ Cardinality(results) <= 1
                     /\ tools[e].state = "ended" =>
                             \E c \in calls, r \in results :
                                 /\ live.blocks[r].content = Final
                                 /\ live.blocks[c].tool = live.blocks[r].tool
                                 /\ live.blocks[c].status = live.blocks[r].status
      <3> DEFINE calls == {i \in ShownAs(e) : live.blocks[i].type = "tool_call"}
                 results == {i \in ShownAs(e) : live.blocks[i].type = "tool_result"}
      <3>1. phase # "idle"
        <4>1. ~NewLive(live.id, live.made).open
          BY DEF NewLive
        <4> QED
          BY <2>2, <4>1 DEF LiveInv, ProjectionSound
      <3>2. /\ calls # {}
            /\ tools[e].state = "ended" => Closed(e)
        BY <2>2, <3>1 DEF LiveInv, FollowedSound
      <3>3. \A i, j \in calls : i = j
        BY OneBlockEach
      <3>4. \A i, j \in results : i = j
        BY OneBlockEach
      <3>5. Cardinality(calls) = 1
        <4>1. PICK i \in calls : TRUE
          BY <3>2
        <4>2. calls = {i}
          BY <3>3, <4>1
        <4> HIDE DEF calls
        <4> QED
          BY <4>2, FS_Singleton
      <3>6. Cardinality(results) <= 1
        <4>1. CASE results = {}
          <5> HIDE DEF results
          <5> QED
            BY <4>1, FS_EmptySet
        <4>2. CASE results # {}
          <5>1. PICK i \in results : TRUE
            BY <4>2
          <5>2. results = {i}
            BY <3>4, <5>1
          <5>3. Cardinality(results) = 1
            <6> HIDE DEF results
            <6> QED
              BY <5>2, FS_Singleton
          <5> QED
            BY <5>3
        <4> QED
          BY <4>1, <4>2
      <3>7. ASSUME tools[e].state = "ended"
            PROVE  \E c \in calls, r \in results :
                       /\ live.blocks[r].content = Final
                       /\ live.blocks[c].tool = live.blocks[r].tool
                       /\ live.blocks[c].status = live.blocks[r].status
        <4>1. PICK c \in ShownAs(e), r \in ShownAs(e) :
                  /\ live.blocks[c].type = "tool_call" /\ live.blocks[r].type = "tool_result"
                  /\ live.blocks[c].status = live.blocks[r].status
                  /\ live.blocks[r].content = Final
          BY <3>2, <3>7 DEF Closed
        <4>2. live.blocks[c].tool = live.blocks[r].tool
          BY OneBlockEach
        <4> QED
          BY <4>1, <4>2
      <3> QED
        BY <3>5, <3>6, <3>7
    <2>3. live.anchor # None => CallBlocks(live.blocks, live.anchor) # {}
      BY DEF LiveInv, IdsSound
    <2> QED
      BY <2>1, <2>2, <2>3 DEF ToolsShownOnce
  <1> QED
    BY <1>1, LiveInvariant, PTL

-------------------------------------------------------------------------------
(* What is read, in order *)

LEMMA ReadingAt ==
    ASSUME NEW view, NEW type, NEW s
    PROVE  s \in Reading(view, type) <=>
             \E m \in DOMAIN view : \E i \in DOMAIN view[m] :
               \E k \in DOMAIN Marks(view[m][i], type) :
                 s = << <<m, i, k>>, Marks(view[m][i], type)[k] >>
  BY DEF Reading

LEMMA PlacesAt ==
    ASSUME NEW view, NEW type, NEW p
    PROVE  p \in Places(view, type) <=>
             \E m \in DOMAIN view : \E i \in DOMAIN view[m] :
               \E k \in DOMAIN Told(view[m][i], type) : p = <<m, i, k>>
  BY DEF Places

Marking == (Nat \X Nat \X Nat) \X (Nat \X Nat)

Legible(view, type) ==
    /\ DOMAIN view \subseteq Nat
    /\ \A m \in DOMAIN view :
        /\ DOMAIN view[m] \subseteq Nat
        /\ \A i \in DOMAIN view[m] : Marks(view[m][i], type) \in Seq(Nat \X Nat)

(* At a place one thing is read. *)
Definite(reading) ==
    reading \subseteq Marking /\ \A s, t \in reading : s[1] = t[1] => s = t

LEMMA ReadingTyped ==
    ASSUME NEW view, NEW type, Legible(view, type)
    PROVE  Definite(Reading(view, type))
  <1>1. ASSUME NEW s \in Reading(view, type)
        PROVE  s \in Marking
    <2>1. PICK m \in DOMAIN view : \E i \in DOMAIN view[m] :
                 \E k \in DOMAIN Marks(view[m][i], type) :
                   s = << <<m, i, k>>, Marks(view[m][i], type)[k] >>
      BY ReadingAt
    <2>2. PICK i \in DOMAIN view[m] : \E k \in DOMAIN Marks(view[m][i], type) :
                   s = << <<m, i, k>>, Marks(view[m][i], type)[k] >>
      BY <2>1
    <2>3. PICK k \in DOMAIN Marks(view[m][i], type) :
                   s = << <<m, i, k>>, Marks(view[m][i], type)[k] >>
      BY <2>2
    <2>4. m \in Nat /\ i \in Nat /\ Marks(view[m][i], type) \in Seq(Nat \X Nat)
      BY DEF Legible
    <2>5. k \in Nat /\ Marks(view[m][i], type)[k] \in Nat \X Nat
      BY <2>4
    <2> QED
      BY <2>3, <2>4, <2>5 DEF Marking
  <1>2. ASSUME NEW s \in Reading(view, type), NEW t \in Reading(view, type), s[1] = t[1]
        PROVE  s = t
    BY <1>2, ReadingAt
  <1> QED
    BY <1>1, <1>2 DEF Definite

LEMMA EarlierOrNot ==
    ASSUME NEW p \in Nat \X Nat \X Nat, NEW q \in Nat \X Nat \X Nat
    PROVE  p = q \/ Earlier(p, q) \/ Earlier(q, p)
  BY DEF Earlier

LEMMA NotBoth ==
    ASSUME NEW x \in Nat \X Nat, NEW y \in Nat \X Nat, Sooner(x, y)
    PROVE  ~Sooner(y, x) /\ x # y
  BY DEF Sooner

(* In an order nothing is read twice. *)
LEMMA ReadOnce ==
    ASSUME NEW reading, Definite(reading), InOrder(reading),
           NEW s \in reading, NEW t \in reading, s[2] = t[2]
    PROVE  s = t
  <1>1. s[1] \in Nat \X Nat \X Nat /\ t[1] \in Nat \X Nat \X Nat
        /\ s[2] \in Nat \X Nat /\ t[2] \in Nat \X Nat
    BY DEF Definite, Marking
  <1>2. ~Earlier(s[1], t[1]) /\ ~Earlier(t[1], s[1])
    BY <1>1, NotBoth DEF InOrder
  <1> QED
    BY <1>1, <1>2, EarlierOrNot DEF Definite

LEMMA OrderGrows ==
    ASSUME NEW reading, NEW new, InOrder(reading), InOrder(new),
           \A s \in reading, t \in new : ~Earlier(t[1], s[1]) /\ Sooner(s[2], t[2])
    PROVE  InOrder(reading \union new)
  BY DEF InOrder

Matched(reading, other, p, q) ==
    \E s \in reading, t \in other : s[1] = p /\ t[1] = q /\ s[2] = t[2]

(* Two views alike in what is read, in order, are read alike. *)
LEMMA ReadTheSame ==
    ASSUME NEW reading, NEW other, Definite(reading), Definite(other),
           InOrder(reading), InOrder(other), Read(reading) = Read(other),
           NEW view, NEW shown, NEW type,
           Places(view, type) = {s[1] : s \in reading},
           Places(shown, type) = {s[1] : s \in other},
           \A s \in reading, t \in other :
             s[2] = t[2] => ToldAt(view, type, s[1]) = ToldAt(shown, type, t[1])
    PROVE  ReadAlike(view, shown, type)
  <1> DEFINE S == Places(view, type)
             T == Places(shown, type)
             chosen(p) == CHOOSE q \in T : Matched(reading, other, p, q)
             f == [p \in S |-> chosen(p)]
  <1>1. ASSUME NEW s \in reading
        PROVE  \E q \in T : Matched(reading, other, s[1], q)
    <2>1. s[2] \in Read(other)
      BY DEF Read
    <2>2. PICK t \in other : t[2] = s[2]
      BY <2>1 DEF Read
    <2> QED
      BY <2>2 DEF Matched
  <1>2. ASSUME NEW p \in S
        PROVE  f[p] \in T /\ Matched(reading, other, p, f[p])
    <2>1. \E q \in T : Matched(reading, other, p, q)
      BY <1>1
    <2> QED
      BY <2>1
  <1>3. ASSUME NEW p \in S, NEW q \in S, f[p] = f[q]
        PROVE  p = q
    <2>1. PICK s \in reading, t \in other : s[1] = p /\ t[1] = f[p] /\ s[2] = t[2]
      BY <1>2 DEF Matched
    <2>2. PICK u \in reading, v \in other : u[1] = q /\ v[1] = f[q] /\ u[2] = v[2]
      BY <1>2 DEF Matched
    <2>3. t = v
      BY <1>3, <2>1, <2>2 DEF Definite
    <2>4. s = u
      BY <2>1, <2>2, <2>3, ReadOnce
    <2> QED
      BY <2>1, <2>2, <2>4
  <1>4. ASSUME NEW q \in T
        PROVE  \E p \in S : f[p] = q
    <2>1. PICK t \in other : t[1] = q
      OBVIOUS
    <2>2. t[2] \in Read(reading)
      BY DEF Read
    <2>3. PICK s \in reading : s[2] = t[2]
      BY <2>2 DEF Read
    <2>4. s[1] \in S
      OBVIOUS
    <2>5. PICK u \in reading, v \in other : u[1] = s[1] /\ v[1] = f[s[1]] /\ u[2] = v[2]
      BY <1>2, <2>4 DEF Matched
    <2>6. u = s
      BY <2>5 DEF Definite
    <2>7. v = t
      BY <2>3, <2>5, <2>6, ReadOnce
    <2> QED
      BY <2>1, <2>4, <2>5, <2>7
  <1>5. ASSUME NEW p \in S
        PROVE  ToldAt(view, type, p) = ToldAt(shown, type, f[p])
    <2>1. Matched(reading, other, p, f[p])
      BY <1>2
    <2> HIDE DEF f
    <2> QED
      BY <2>1 DEF Matched
  <1>6. ASSUME NEW p \in S, NEW q \in S, Earlier(p, q)
        PROVE  Earlier(f[p], f[q])
    <2>1. PICK s \in reading, t \in other : s[1] = p /\ t[1] = f[p] /\ s[2] = t[2]
      BY <1>2 DEF Matched
    <2>2. PICK u \in reading, v \in other : u[1] = q /\ v[1] = f[q] /\ u[2] = v[2]
      BY <1>2 DEF Matched
    <2>3. Sooner(s[2], u[2])
      BY <1>6, <2>1, <2>2 DEF InOrder
    <2>4. /\ t[1] \in Nat \X Nat \X Nat /\ v[1] \in Nat \X Nat \X Nat
          /\ t[2] \in Nat \X Nat /\ v[2] \in Nat \X Nat
      BY DEF Definite, Marking
    <2>5. t[1] # v[1] /\ ~Earlier(v[1], t[1])
      <3>1. ~Sooner(v[2], t[2]) /\ t[2] # v[2]
        BY <2>1, <2>2, <2>3, <2>4, NotBoth
      <3>2. ~Earlier(v[1], t[1])
        BY <3>1 DEF InOrder
      <3>3. t[1] # v[1]
        BY <3>1 DEF Definite
      <3> QED
        BY <3>2, <3>3
    <2> QED
      BY <2>1, <2>2, <2>4, <2>5, EarlierOrNot
  <1> HIDE DEF chosen
  <1>7. f \in Bijection(S, T)
    <2>1. f \in [S -> T]
      <3>1. \A p \in S : chosen(p) \in T
        BY <1>2
      <3> QED
        BY <3>1
    <2> QED
      BY <1>3, <1>4, <2>1 DEF Bijection, Injection, Surjection, IsInjective
  <1> QED
    BY <1>5, <1>6, <1>7 DEF ReadAlike

LEMMA GreatestOfNaturals ==
    ASSUME NEW n \in Nat, NEW S \in SUBSET (1..n), S # {}
    PROVE  Max(S) \in S
  <1> DEFINE T == {m \in Nat : \E i \in S : m = n - i}
  <1>1. T \in SUBSET Nat /\ T # {}
    <2>1. PICK i \in S : TRUE
      OBVIOUS
    <2>2. n - i \in Nat
      BY <2>1
    <2>3. n - i \in T
      BY <2>1, <2>2
    <2> QED
      BY <2>3
  <1>2. Min(T) \in T /\ \A m \in T : Min(T) <= m
    BY <1>1, LeastOfNaturals
  <1>3. PICK j \in S : Min(T) = n - j
    BY <1>2
  <1>4. ASSUME NEW i \in S
        PROVE  j >= i
    <2>1. i \in 1..n /\ j \in 1..n
      OBVIOUS
    <2>2. n - i \in T
      BY <2>1
    <2> QED
      BY <1>2, <1>3, <2>1, <2>2
  <1> HIDE DEF T
  <1>5. \E x \in S : \A y \in S : x >= y
    BY <1>4
  <1> QED
    BY <1>5 DEF Max

(* What is told of what is read: a tool as it ended, or a piece of a text. *)
ToldOf(x, type) ==
    IF x[2] = 0
    THEN <<"tool", {x[1]}, StatusOf(x[1] \in Failing), {x[1]}>>
    ELSE <<type, x, "none", {}>>

(* A tool with an id that ended, in the blocks of a message *)
Finished(blocks, b) ==
    LET e == b.tool[2]
    IN  /\ b.of = {e} /\ b.status = StatusOf(e \in Failing)
        /\ CallBlocks(blocks, b.tool) # {} /\ Results(blocks, b.tool) # {}

Tellable(blocks) ==
    /\ \E n \in Nat : DOMAIN blocks = 1..n
    /\ \A i \in DOMAIN blocks :
        /\ blocks[i].type \in TextLike \union {"tool_call", "tool_result"}
        /\ blocks[i].type \in TextLike => blocks[i].content \in Seq(Nat \X (Nat \ {0}))
        /\ blocks[i].type \notin TextLike /\ blocks[i].tool[1] = "id" =>
                Finished(blocks, blocks[i])

LEMMA SaidPositive ==
    ASSUME NEW content \in Seq(Nat \X (Nat \ {0}))
    PROVE  \A k \in DOMAIN content : content[k][2] # 0
  <1> SUFFICES ASSUME NEW k \in DOMAIN content
               PROVE  content[k][2] # 0
    OBVIOUS
  <1>1. content[k] \in Nat \X (Nat \ {0})
    BY ElementOfSeq
  <1> QED
    BY <1>1

LEMMA ToldAsRead ==
    ASSUME NEW blocks, Tellable(blocks), NEW i \in DOMAIN blocks, NEW type \in TextLike,
           ~ShownWithCall(blocks, blocks[i])
    PROVE  LET told == Told(RenderedBlock(blocks, blocks[i]), type)
               marks == Marks(blocks[i], type)
           IN  /\ DOMAIN told = DOMAIN marks
               /\ \A k \in DOMAIN marks : told[k] = ToldOf(marks[k], type)
  <1> DEFINE b == blocks[i]
             told == Told(RenderedBlock(blocks, b), type)
             marks == Marks(b, type)
  <1> SUFFICES /\ DOMAIN told = DOMAIN marks
               /\ \A k \in DOMAIN marks : told[k] = ToldOf(marks[k], type)
    OBVIOUS
  <1>a. "tool" \notin TextLike /\ "tool_call" \notin TextLike /\ "tool_result" \notin TextLike
    BY DEF TextLike
  <1>b. b.type \in TextLike \union {"tool_call", "tool_result"}
    BY DEF Tellable
  <1>1. CASE b.type \in TextLike
    <2>1. RenderedBlock(blocks, b) = Rendered(b.type, None, {}, b.content, "none", {})
      BY <1>1, <1>a DEF RenderedBlock
    <2>0. /\ RenderedBlock(blocks, b).type = b.type
          /\ RenderedBlock(blocks, b).content = b.content
      BY <2>1 DEF Rendered
    <2>2. CASE b.type = type
      <3>1. told = [k \in DOMAIN b.content |-> <<type, b.content[k], "none", {}>>]
        BY <2>0, <2>2, <1>a DEF Told
      <3>2. marks = b.content
        BY <2>2, <1>a DEF Marks
      <3>3. \A k \in DOMAIN b.content : b.content[k][2] # 0
        <4>1. b.content \in Seq(Nat \X (Nat \ {0}))
          BY <1>1 DEF Tellable
        <4> QED
          BY <4>1, SaidPositive
      <3> QED
        BY <3>1, <3>2, <3>3 DEF ToldOf
    <2>3. CASE b.type # type
      <3>1. told = <<>>
        BY <1>1, <1>a, <2>0, <2>3 DEF Told
      <3>2. marks = <<>>
        BY <1>1, <1>a, <2>3 DEF Marks
      <3> QED
        BY <3>1, <3>2
    <2> QED
      BY <2>2, <2>3
  <1>2. CASE b.type = "tool_call" /\ b.tool[1] = "id"
    <2> DEFINE e == b.tool[2]
               results == Results(blocks, b.tool)
               result == blocks[Max(results)]
               status == IF result.status = "error" THEN "error" ELSE b.status
    <2>1. Finished(blocks, b)
      BY <1>2, <1>a DEF Tellable
    <2>2. Max(results) \in results
      <3>1. PICK n \in Nat : DOMAIN blocks = 1..n
        BY DEF Tellable
      <3>2. results \in SUBSET (1..n) /\ results # {}
        BY <2>1, <3>1 DEF Results, Finished
      <3> QED
        BY <3>2, GreatestOfNaturals
    <2>3. result.type = "tool_result" /\ result.tool = b.tool /\ Max(results) \in DOMAIN blocks
      BY <2>2 DEF Results
    <2>4. Finished(blocks, result)
      BY <1>2, <1>a, <2>3 DEF Tellable
    <2>5. result.of = {e} /\ result.status = StatusOf(e \in Failing) /\ b.of = {e}
          /\ b.status = StatusOf(e \in Failing)
      BY <2>1, <2>3, <2>4 DEF Finished
    <2>6. status = StatusOf(e \in Failing)
      BY <2>5 DEF StatusOf
    <2>7. RenderedBlock(blocks, b) = Rendered("tool", b.tool, b.of, <<>>, status, result.of)
      BY <1>2, <2>2 DEF RenderedBlock
    <2>8. told = << <<"tool", {e}, StatusOf(e \in Failing), {e}>> >>
      BY <1>2, <1>a, <2>5, <2>6, <2>7 DEF Told, Rendered
    <2>9. marks = << <<e, 0>> >>
      BY <1>2, <1>a DEF Marks
    <2>10. ToldOf(<<e, 0>>, type) = <<"tool", {e}, StatusOf(e \in Failing), {e}>>
      BY DEF ToldOf
    <2>11. \A one, other : one = <<ToldOf(other[1], type)>> /\ DOMAIN other = {1} =>
              /\ DOMAIN one = DOMAIN other
              /\ \A k \in DOMAIN other : one[k] = ToldOf(other[k], type)
      OBVIOUS
    <2>12. DOMAIN marks = {1} /\ marks[1] = <<e, 0>>
      BY <2>9
    <2> HIDE DEF told, marks, e
    <2> QED
      BY <2>8, <2>10, <2>11, <2>12
  <1>3. CASE b.type = "tool_call" /\ b.tool[1] # "id"
    <2>1. RenderedBlock(blocks, b).type = "tool" /\ RenderedBlock(blocks, b).tool = b.tool
      BY <1>3 DEF RenderedBlock, Rendered
    <2>2. told = <<>> /\ marks = <<>>
      BY <1>3, <1>a, <2>1 DEF Told, Marks
    <2> QED
      BY <2>2
  <1>4. CASE b.type = "tool_result"
    <2>1. b.tool[1] # "id"
      BY <1>4, <1>a DEF Tellable, Finished, ShownWithCall
    <2>2. RenderedBlock(blocks, b).type = "tool" /\ RenderedBlock(blocks, b).tool = b.tool
      BY <1>4 DEF RenderedBlock, Rendered
    <2>3. told = <<>> /\ marks = <<>>
      BY <1>4, <1>a, <2>1, <2>2 DEF Told, Marks
    <2> QED
      BY <2>3
  <1> QED
    BY <1>b, <1>1, <1>2, <1>3, <1>4

(* Where something is read it is told, and nowhere else. *)
TellsOf(rendered, reading, type) ==
    /\ Places(rendered, type) = {s[1] : s \in reading}
    /\ \A s \in reading : ToldAt(rendered, type, s[1]) = ToldOf(s[2], type)

LEMMA ToldWhereRead ==
    ASSUME NEW view, \A m \in DOMAIN view : Tellable(view[m]), NEW type \in TextLike,
           NEW rendered, rendered = [m \in DOMAIN view |-> RenderedBlocks(view[m])]
    PROVE  TellsOf(rendered, Reading(view, type), type)
  <1>1. ASSUME NEW m \in DOMAIN view, NEW i \in DOMAIN rendered[m]
        PROVE  /\ i \in DOMAIN view[m]
               /\ DOMAIN Told(rendered[m][i], type) = DOMAIN Marks(view[m][i], type)
               /\ \A k \in DOMAIN Marks(view[m][i], type) :
                    Told(rendered[m][i], type)[k] = ToldOf(Marks(view[m][i], type)[k], type)
    <2>1. rendered[m] = RenderedBlocks(view[m])
      OBVIOUS
    <2>2. /\ i \in DOMAIN view[m] /\ ~ShownWithCall(view[m], view[m][i])
          /\ rendered[m][i] = RenderedBlock(view[m], view[m][i])
      BY <2>1 DEF RenderedBlocks
    <2>3. Tellable(view[m])
      OBVIOUS
    <2> QED
      BY <2>2, <2>3, ToldAsRead
  <1>2. ASSUME NEW m \in DOMAIN view, NEW i \in DOMAIN view[m], i \notin DOMAIN rendered[m]
        PROVE  Marks(view[m][i], type) = <<>>
    <2>1. rendered[m] = RenderedBlocks(view[m])
      OBVIOUS
    <2>2. view[m][i].type = "tool_result"
      BY <1>2, <2>1 DEF RenderedBlocks, ShownWithCall
    <2> QED
      BY <2>2 DEF Marks, TextLike
  <1>3. DOMAIN rendered = DOMAIN view
    OBVIOUS
  <1>4. ASSUME NEW p \in Places(rendered, type)
        PROVE  p \in {s[1] : s \in Reading(view, type)}
    <2>1. PICK m \in DOMAIN rendered : \E i \in DOMAIN rendered[m] :
                 \E k \in DOMAIN Told(rendered[m][i], type) : p = <<m, i, k>>
      BY PlacesAt
    <2>2. PICK i \in DOMAIN rendered[m] :
                 \E k \in DOMAIN Told(rendered[m][i], type) : p = <<m, i, k>>
      BY <2>1
    <2>3. PICK k \in DOMAIN Told(rendered[m][i], type) : p = <<m, i, k>>
      BY <2>2
    <2>4. m \in DOMAIN view /\ i \in DOMAIN view[m] /\ k \in DOMAIN Marks(view[m][i], type)
      BY <1>1, <1>3
    <2>5. << <<m, i, k>>, Marks(view[m][i], type)[k] >> \in Reading(view, type)
      BY <2>4, ReadingAt
    <2> QED
      BY <2>3, <2>5
  <1>5. ASSUME NEW s \in Reading(view, type)
        PROVE  s[1] \in Places(rendered, type) /\ ToldAt(rendered, type, s[1]) = ToldOf(s[2], type)
    <2>1. PICK m \in DOMAIN view : \E i \in DOMAIN view[m] :
                 \E k \in DOMAIN Marks(view[m][i], type) :
                   s = << <<m, i, k>>, Marks(view[m][i], type)[k] >>
      BY ReadingAt
    <2>2. PICK i \in DOMAIN view[m] : \E k \in DOMAIN Marks(view[m][i], type) :
                   s = << <<m, i, k>>, Marks(view[m][i], type)[k] >>
      BY <2>1
    <2>3. PICK k \in DOMAIN Marks(view[m][i], type) :
                   s = << <<m, i, k>>, Marks(view[m][i], type)[k] >>
      BY <2>2
    <2>4. i \in DOMAIN rendered[m]
      BY <1>2, <2>3
    <2>5. /\ k \in DOMAIN Told(rendered[m][i], type)
          /\ Told(rendered[m][i], type)[k] = ToldOf(Marks(view[m][i], type)[k], type)
      BY <1>1, <2>4
    <2>6. <<m, i, k>> \in Places(rendered, type)
      BY <1>3, <2>4, <2>5, PlacesAt
    <2>7. ToldAt(rendered, type, <<m, i, k>>) = Told(rendered[m][i], type)[k]
      BY DEF ToldAt
    <2> QED
      BY <2>3, <2>5, <2>6, <2>7
  <1> QED
    BY <1>4, <1>5 DEF TellsOf

-------------------------------------------------------------------------------
(* normalizeMessages, entry by entry *)

UpTo(es, n, f) ==
    f = [k \in 0..n |-> IF k = 0 THEN <<>> ELSE NormalizeMerging(f[k - 1], es[k], k - 1)]

LEMMA UpToExists ==
    ASSUME NEW es, NEW n \in Nat
    PROVE  \E f : UpTo(es, n, f)
  <1> DEFINE Bad == {m \in Nat : ~ \E f : UpTo(es, m, f)}
  <1> SUFFICES ASSUME Bad # {}
               PROVE  FALSE
    OBVIOUS
  <1>1. PICK m \in Bad : \A k \in Bad : m <= k
    <2>1. Bad \in SUBSET Nat
      OBVIOUS
    <2> QED
      BY <2>1, LeastOfNaturals
  <1>2. m \in Nat /\ ~ \E f : UpTo(es, m, f)
    OBVIOUS
  <1>3. CASE m = 0
    <2> DEFINE g == [k \in 0..0 |-> <<>>]
    <2>1. g = [k \in 0..0 |-> IF k = 0 THEN <<>> ELSE NormalizeMerging(g[k - 1], es[k], k - 1)]
      OBVIOUS
    <2>2. UpTo(es, 0, g)
      BY <2>1 DEF UpTo
    <2> QED
      BY <1>2, <1>3, <2>2
  <1>4. CASE m # 0
    <2>1. m - 1 \in Nat /\ m - 1 \notin Bad
      BY <1>1, <1>2, <1>4
    <2>2. PICK f : UpTo(es, m - 1, f)
      BY <2>1
    <2>3. f = [k \in 0..(m - 1) |-> IF k = 0 THEN <<>> ELSE NormalizeMerging(f[k - 1], es[k], k - 1)]
      BY <2>2 DEF UpTo
    <2> DEFINE last == NormalizeMerging(f[m - 1], es[m], m - 1)
               g == [k \in 0..m |-> IF k = m THEN last ELSE f[k]]
    <2>4. ASSUME NEW k \in 0..m
          PROVE  g[k] = IF k = 0 THEN <<>> ELSE NormalizeMerging(g[k - 1], es[k], k - 1)
      <3>1. CASE k = m
        <4>1. m - 1 \in 0..m /\ m - 1 # m
          BY <1>2, <1>4
        <4>2. g[m - 1] = f[m - 1]
          BY <4>1
        <4> QED
          BY <1>4, <3>1, <4>2
      <3>2. CASE k # m
        <4>1. k \in 0..(m - 1)
          BY <1>2, <3>2
        <4>2. g[k] = f[k]
          BY <3>2
        <4>3. f[k] = IF k = 0 THEN <<>> ELSE NormalizeMerging(f[k - 1], es[k], k - 1)
          BY <2>3, <4>1
        <4>4. k # 0 => k - 1 \in 0..m /\ k - 1 # m
          BY <4>1
        <4>5. k # 0 => g[k - 1] = f[k - 1]
          BY <4>4
        <4> QED
          BY <4>2, <4>3, <4>5
      <3> QED
        BY <3>1, <3>2
    <2> HIDE DEF last
    <2>5. g = [k \in 0..m |-> IF k = 0 THEN <<>> ELSE NormalizeMerging(g[k - 1], es[k], k - 1)]
      BY <2>4
    <2>6. UpTo(es, m, g)
      BY <2>5 DEF UpTo
    <2> QED
      BY <1>2, <2>6
  <1> QED
    BY <1>3, <1>4

LEMMA UpToAgrees ==
    ASSUME NEW es, NEW fs, NEW n \in Nat, NEW m \in Nat, n <= m,
           \A k \in 1..n : es[k] = fs[k],
           NEW f, NEW g, UpTo(es, n, f), UpTo(fs, m, g)
    PROVE  f[n] = g[n]
  <1> DEFINE Bad == {k \in 0..n : f[k] # g[k]}
  <1> SUFFICES ASSUME Bad # {}
               PROVE  FALSE
    OBVIOUS
  <1>1. PICK k \in Bad : \A j \in Bad : k <= j
    <2>1. Bad \in SUBSET Nat
      OBVIOUS
    <2> QED
      BY <2>1, LeastOfNaturals
  <1>2. /\ f[k] = IF k = 0 THEN <<>> ELSE NormalizeMerging(f[k - 1], es[k], k - 1)
        /\ g[k] = IF k = 0 THEN <<>> ELSE NormalizeMerging(g[k - 1], fs[k], k - 1)
    BY DEF UpTo
  <1>3. CASE k = 0
    BY <1>2, <1>3
  <1>4. CASE k # 0
    <2>1. k - 1 \in 0..n /\ k - 1 \notin Bad /\ k \in 1..n
      BY <1>1, <1>4
    <2>2. f[k - 1] = g[k - 1] /\ es[k] = fs[k]
      BY <2>1
    <2> QED
      BY <1>2, <1>4, <2>2
  <1> QED
    BY <1>3, <1>4

LEMMA NormalizedUpTo ==
    ASSUME NEW es, Len(es) \in Nat
    PROVE  \E f : UpTo(es, Len(es), f) /\ NormalizeMessages(es) = f[Len(es)]
  <1> DEFINE F == CHOOSE f : UpTo(es, Len(es), f)
  <1>1. NormalizeMessages(es) = F[Len(es)]
    BY DEF NormalizeMessages, UpTo
  <1>2. UpTo(es, Len(es), F)
    BY UpToExists
  <1> QED
    BY <1>1, <1>2

LEMMA NormalizeNone ==
    NormalizeMessages(<<>>) = <<>>
  <1>1. Len(<<>>) = 0 /\ Len(<<>>) \in Nat
    OBVIOUS
  <1>2. PICK f : UpTo(<<>>, 0, f) /\ NormalizeMessages(<<>>) = f[0]
    BY <1>1, NormalizedUpTo
  <1>3. f = [k \in 0..0 |-> IF k = 0 THEN <<>> ELSE NormalizeMerging(f[k - 1], <<>>[k], k - 1)]
    BY <1>2 DEF UpTo
  <1>4. 0 \in 0..0
    OBVIOUS
  <1> QED
    BY <1>2, <1>3, <1>4

LEMMA NormalizeMore ==
    ASSUME NEW S, NEW es \in Seq(S), NEW entry
    PROVE  NormalizeMessages(Append(es, entry))
             = NormalizeMerging(NormalizeMessages(es), entry, Len(es))
  <1> DEFINE n == Len(es)
             fs == Append(es, entry)
  <1>1. n \in Nat /\ Len(fs) = n + 1 /\ fs[n + 1] = entry /\ \A k \in 1..n : es[k] = fs[k]
    OBVIOUS
  <1> HIDE DEF fs, n
  <1>2. PICK f : UpTo(es, n, f) /\ NormalizeMessages(es) = f[n]
    BY <1>1, NormalizedUpTo DEF n
  <1>3. PICK g : UpTo(fs, n + 1, g) /\ NormalizeMessages(fs) = g[n + 1]
    BY <1>1, NormalizedUpTo
  <1>4. f[n] = g[n]
    <2>1. n + 1 \in Nat /\ n <= n + 1
      BY <1>1
    <2> QED
      BY <1>1, <1>2, <1>3, <2>1, UpToAgrees
  <1>5. g[n + 1] = NormalizeMerging(g[n], fs[n + 1], n)
    <2>1. g = [k \in 0..(n + 1) |-> IF k = 0 THEN <<>> ELSE NormalizeMerging(g[k - 1], fs[k], k - 1)]
      BY <1>3 DEF UpTo
    <2>2. n + 1 \in 0..(n + 1) /\ n + 1 # 0 /\ (n + 1) - 1 = n
      BY <1>1
    <2> HIDE DEF fs
    <2> QED
      BY <2>1, <2>2
  <1> QED
    BY <1>1, <1>2, <1>3, <1>4, <1>5 DEF fs, n

-------------------------------------------------------------------------------
(* Messages that are added or replaced *)

LEMMA LastReplaced ==
    ASSUME NEW messages \in Seq(Messages), HasAssistant(messages),
           NEW message \in Messages
    PROVE  LET later == WithLast(messages, message)
           IN  /\ later \in Seq(Messages) /\ Len(later) = Len(messages)
               /\ DOMAIN later = DOMAIN messages
               /\ later[Len(messages)] = message /\ Last(later) = message
               /\ \A m \in DOMAIN messages : m # Len(messages) => later[m] = messages[m]
  <1> DEFINE n == Len(messages)
             front == Front(messages)
             later == WithLast(messages, message)
  <1>1. n \in Nat \ {0} /\ DOMAIN messages = 1..n
    <2>1. messages # <<>>
      BY DEF HasAssistant
    <2> QED
      BY <2>1, EmptySeq, LenProperties
  <1>2. /\ front \in Seq(Messages) /\ Len(front) = n - 1
        /\ \A m \in 1..(n - 1) : front[m] = messages[m]
    <2>1. front = SubSeq(messages, 1, n - 1)
      BY DEF Front
    <2>2. \A i \in 1..(n - 1) : messages[i] \in Messages
      BY <1>1, ElementOfSeq
    <2>3. 1 \in Int /\ n - 1 \in Int /\ 1..(n - 1) \subseteq 1..n
      BY <1>1
    <2> QED
      BY <1>1, <2>1, <2>2, <2>3, SubSeqProperties
  <1>3. later = Append(front, message)
    BY DEF WithLast
  <1>4. /\ later \in Seq(Messages) /\ Len(later) = n
        /\ \A m \in 1..(n - 1) : later[m] = messages[m]
        /\ later[n] = message
    <2> HIDE DEF front, n, later
    <2> QED
      BY <1>1, <1>2, <1>3, AppendProperties
  <1>5. DOMAIN later = 1..n
    BY <1>4, LenProperties
  <1> QED
    BY <1>1, <1>4, <1>5 DEF Last

LEMMA MessageAdded ==
    ASSUME NEW messages \in Seq(Messages), NEW message \in Messages
    PROVE  LET later == Append(messages, message)
           IN  /\ later \in Seq(Messages) /\ Len(later) = Len(messages) + 1
               /\ DOMAIN later = DOMAIN messages \union {Len(messages) + 1}
               /\ later[Len(messages) + 1] = message /\ Last(later) = message
               /\ \A m \in DOMAIN messages : later[m] = messages[m]
               /\ later # <<>>
  <1> DEFINE n == Len(messages)
             later == Append(messages, message)
  <1>1. n \in Nat /\ DOMAIN messages = 1..n
    BY LenProperties
  <1>2. /\ later \in Seq(Messages) /\ Len(later) = n + 1 /\ later # <<>>
        /\ \A m \in 1..n : later[m] = messages[m]
        /\ later[n + 1] = message
    BY AppendProperties
  <1>3. DOMAIN later = 1..n + 1
    BY <1>2, LenProperties
  <1> HIDE DEF later, n
  <1>4. 1..n + 1 = (1..n) \union {n + 1}
    BY <1>1
  <1>5. Last(later) = message
    BY <1>2 DEF Last
  <1> QED
    BY <1>1, <1>2, <1>3, <1>4, <1>5 DEF n, later

(* `later` has `blocks` more at the end of message m, the last or a new one. *)
Longer(view, later, m, offset, blocks) ==
    /\ m \in Nat /\ DOMAIN view \subseteq Nat /\ \A n \in DOMAIN view : n <= m
    /\ DOMAIN later = DOMAIN view \union {m}
    /\ \A n \in DOMAIN view : n # m => later[n] = view[n]
    /\ offset \in Nat /\ Len(blocks) \in Nat /\ DOMAIN blocks = 1..Len(blocks)
    /\ IF m \in DOMAIN view THEN DOMAIN view[m] = 1..offset ELSE offset = 0
    /\ DOMAIN later[m] = 1..(offset + Len(blocks))
    /\ m \in DOMAIN view => \A i \in 1..offset : later[m][i] = view[m][i]
    /\ \A i \in 1..Len(blocks) : later[m][offset + i] = blocks[i]

Moving(s, m, offset) == << <<m, offset + s[1][2], s[1][3]>>, s[2] >>

LEMMA LongerBlocks ==
    ASSUME NEW view, NEW later, NEW m, NEW offset, NEW blocks,
           Longer(view, later, m, offset, blocks),
           NEW n \in DOMAIN later, NEW i \in DOMAIN later[n]
    PROVE  \/ n \in DOMAIN view /\ i \in DOMAIN view[n] /\ later[n][i] = view[n][i]
           \/ n = m /\ \E j \in DOMAIN blocks : i = offset + j /\ later[n][i] = blocks[j]
  <1>1. CASE n # m
    BY <1>1 DEF Longer
  <1>2. CASE n = m /\ i \in 1..offset
    <2>1. m \in DOMAIN view
      BY <1>2 DEF Longer
    <2> QED
      BY <1>2, <2>1 DEF Longer
  <1>3. CASE n = m /\ i \notin 1..offset
    <2>1. offset \in Nat /\ Len(blocks) \in Nat /\ i \in 1..(offset + Len(blocks))
      BY <1>3 DEF Longer
    <2>2. i - offset \in 1..Len(blocks) /\ i = offset + (i - offset)
      BY <1>3, <2>1
    <2>3. i - offset \in DOMAIN blocks /\ later[m][offset + (i - offset)] = blocks[i - offset]
      BY <2>2 DEF Longer
    <2> QED
      BY <1>3, <2>2, <2>3
  <1> QED
    BY <1>1, <1>2, <1>3

LEMMA ReadingLonger ==
    ASSUME NEW view, NEW later, NEW m, NEW offset, NEW blocks,
           Longer(view, later, m, offset, blocks), NEW type
    PROVE  Reading(later, type)
             = Reading(view, type)
                 \union {Moving(s, m, offset) : s \in Reading(One(blocks), type)}
  <1> DEFINE new == {Moving(s, m, offset) : s \in Reading(One(blocks), type)}
  <1>1. ASSUME NEW s \in Reading(later, type)
        PROVE  s \in Reading(view, type) \union new
    <2>1. PICK n \in DOMAIN later : \E i \in DOMAIN later[n] :
                 \E k \in DOMAIN Marks(later[n][i], type) :
                   s = << <<n, i, k>>, Marks(later[n][i], type)[k] >>
      BY ReadingAt
    <2>2. PICK i \in DOMAIN later[n] : \E k \in DOMAIN Marks(later[n][i], type) :
                   s = << <<n, i, k>>, Marks(later[n][i], type)[k] >>
      BY <2>1
    <2>3. CASE n \in DOMAIN view /\ i \in DOMAIN view[n] /\ later[n][i] = view[n][i]
      BY <2>2, <2>3, ReadingAt
    <2>4. CASE n = m /\ \E j \in DOMAIN blocks : i = offset + j /\ later[n][i] = blocks[j]
      <3>1. PICK j \in DOMAIN blocks : i = offset + j /\ later[n][i] = blocks[j]
        BY <2>4
      <3>2. PICK k \in DOMAIN Marks(blocks[j], type) :
                   s = << <<n, i, k>>, Marks(blocks[j], type)[k] >>
        BY <2>2, <3>1
      <3>3. << <<1, j, k>>, Marks(blocks[j], type)[k] >> \in Reading(One(blocks), type)
        BY ReadingAt DEF One
      <3>4. Moving(<< <<1, j, k>>, Marks(blocks[j], type)[k] >>, m, offset) = s
        BY <2>4, <3>1, <3>2 DEF Moving
      <3> QED
        BY <3>3, <3>4
    <2> QED
      BY <2>3, <2>4, LongerBlocks
  <1>2. ASSUME NEW s \in Reading(view, type)
        PROVE  s \in Reading(later, type)
    <2>1. PICK n \in DOMAIN view : \E i \in DOMAIN view[n] :
                 \E k \in DOMAIN Marks(view[n][i], type) :
                   s = << <<n, i, k>>, Marks(view[n][i], type)[k] >>
      BY ReadingAt
    <2>2. PICK i \in DOMAIN view[n] : \E k \in DOMAIN Marks(view[n][i], type) :
                   s = << <<n, i, k>>, Marks(view[n][i], type)[k] >>
      BY <2>1
    <2>3. n \in DOMAIN later /\ i \in DOMAIN later[n] /\ later[n][i] = view[n][i]
      <3>1. CASE n # m
        BY <3>1 DEF Longer
      <3>2. CASE n = m
        <4>1. i \in 1..offset /\ later[m][i] = view[m][i] /\ m \in DOMAIN later
          BY <3>2 DEF Longer
        <4>2. i \in 1..(offset + Len(blocks))
          <5>1. offset \in Nat /\ Len(blocks) \in Nat
            BY DEF Longer
          <5> QED
            BY <4>1, <5>1
        <4> QED
          BY <3>2, <4>1, <4>2 DEF Longer
      <3> QED
        BY <3>1, <3>2
    <2> QED
      BY <2>2, <2>3, ReadingAt
  <1>3. ASSUME NEW t \in Reading(One(blocks), type)
        PROVE  Moving(t, m, offset) \in Reading(later, type)
    <2>1. PICK n \in DOMAIN One(blocks) : \E i \in DOMAIN One(blocks)[n] :
                 \E k \in DOMAIN Marks(One(blocks)[n][i], type) :
                   t = << <<n, i, k>>, Marks(One(blocks)[n][i], type)[k] >>
      BY ReadingAt
    <2>2. n = 1 /\ One(blocks)[n] = blocks
      BY DEF One
    <2>3. PICK i \in DOMAIN blocks : \E k \in DOMAIN Marks(blocks[i], type) :
                   t = << <<1, i, k>>, Marks(blocks[i], type)[k] >>
      BY <2>1, <2>2
    <2>4. PICK k \in DOMAIN Marks(blocks[i], type) :
                   t = << <<1, i, k>>, Marks(blocks[i], type)[k] >>
      BY <2>3
    <2>5. /\ m \in DOMAIN later /\ offset + i \in DOMAIN later[m]
          /\ later[m][offset + i] = blocks[i]
      <3>1. offset \in Nat /\ Len(blocks) \in Nat /\ i \in 1..Len(blocks)
        BY DEF Longer
      <3>2. offset + i \in 1..(offset + Len(blocks))
        BY <3>1
      <3> QED
        BY <3>1, <3>2 DEF Longer
    <2>6. Moving(t, m, offset) = << <<m, offset + i, k>>, Marks(blocks[i], type)[k] >>
      BY <2>4 DEF Moving
    <2> QED
      BY <2>5, <2>6, ReadingAt
  <1> QED
    BY <1>1, <1>2, <1>3

LEMMA ReadFrom ==
    ASSUME NEW view, NEW type, NEW s \in Reading(view, type)
    PROVE  \E i \in DOMAIN view[s[1][1]] : s[1][1] \in DOMAIN view /\ s[1][2] = i
  BY ReadingAt

LEMMA LongerInOrder ==
    ASSUME NEW view, NEW later, NEW m, NEW offset, NEW blocks,
           Longer(view, later, m, offset, blocks), NEW type,
           Definite(Reading(view, type)), Definite(Reading(One(blocks), type)),
           InOrder(Reading(view, type)), InOrder(Reading(One(blocks), type)),
           \A x \in Read(Reading(view, type)), y \in Read(Reading(One(blocks), type)) :
             Sooner(x, y)
    PROVE  /\ InOrder(Reading(later, type))
           /\ Read(Reading(later, type))
                = Read(Reading(view, type)) \union Read(Reading(One(blocks), type))
  <1> DEFINE old == Reading(view, type)
             more == Reading(One(blocks), type)
             new == {Moving(s, m, offset) : s \in more}
  <1>1. Reading(later, type) = old \union new
    BY ReadingLonger
  <1>2. ASSUME NEW s \in more
        PROVE  s[1][1] = 1 /\ s[1][2] \in Nat \ {0} /\ s[1] = <<1, s[1][2], s[1][3]>>
    <2>1. s[1][1] \in DOMAIN One(blocks) /\ s[1][2] \in DOMAIN One(blocks)[s[1][1]]
      BY ReadFrom
    <2>2. s[1][1] = 1 /\ s[1][2] \in DOMAIN blocks
      BY <2>1 DEF One
    <2>3. DOMAIN blocks = 1..Len(blocks) /\ Len(blocks) \in Nat
      BY DEF Longer
    <2> QED
      BY <2>2, <2>3 DEF Definite, Marking
  <1>3. ASSUME NEW s \in old
        PROVE  s[1][1] \in Nat /\ s[1][1] <= m /\ (s[1][1] = m => s[1][2] <= offset)
    <2>1. s[1][1] \in DOMAIN view /\ s[1][2] \in DOMAIN view[s[1][1]]
      BY ReadFrom
    <2>2. s[1][1] = m => DOMAIN view[m] = 1..offset
      BY <2>1 DEF Longer
    <2>3. offset \in Nat
      BY DEF Longer
    <2> QED
      BY <2>1, <2>2, <2>3 DEF Longer
  <1>4. m \in Nat /\ offset \in Nat
    BY DEF Longer
  <1>5. InOrder(new)
    <2> SUFFICES ASSUME NEW s \in more, NEW t \in more,
                        Earlier(Moving(s, m, offset)[1], Moving(t, m, offset)[1])
                 PROVE  Sooner(s[2], t[2])
      BY DEF InOrder, Moving
    <2>1. s[1] \in Nat \X Nat \X Nat /\ t[1] \in Nat \X Nat \X Nat
      BY DEF Definite, Marking
    <2>2. Earlier(s[1], t[1])
      BY <1>2, <1>4, <2>1 DEF Earlier, Moving
    <2> QED
      BY <2>2 DEF InOrder
  <1>6. ASSUME NEW s \in old, NEW t \in new
        PROVE  ~Earlier(t[1], s[1]) /\ Sooner(s[2], t[2])
    <2>1. PICK u \in more : t = Moving(u, m, offset)
      OBVIOUS
    <2>2. t[1] = <<m, offset + u[1][2], u[1][3]>> /\ t[2] = u[2]
      BY <2>1 DEF Moving
    <2>3. ~Earlier(t[1], s[1])
      <3>1. s[1] \in Nat \X Nat \X Nat
        BY DEF Definite, Marking
      <3>2. offset + u[1][2] > offset
        BY <1>2, <1>4
      <3> QED
        BY <1>2, <1>3, <1>4, <2>2, <3>1, <3>2 DEF Earlier
    <2>4. Sooner(s[2], u[2])
      BY DEF Read
    <2> QED
      BY <2>2, <2>3, <2>4
  <1>7. InOrder(Reading(later, type))
    BY <1>1, <1>5, <1>6, OrderGrows
  <1>8. Read(Reading(later, type)) = Read(old) \union Read(more)
    <2>1. \A s \in more : Moving(s, m, offset)[2] = s[2]
      BY DEF Moving
    <2>2. Read(new) = Read(more)
      BY <2>1 DEF Read
    <2> QED
      BY <1>1, <2>2 DEF Read
  <1> QED
    BY <1>7, <1>8

LEMMA LongerSpoken ==
    ASSUME NEW view, NEW later, NEW m, NEW offset, NEW blocks,
           Longer(view, later, m, offset, blocks), Spoken(view), Spoken(One(blocks))
    PROVE  Spoken(later)
  <1> SUFFICES ASSUME NEW n \in DOMAIN later, NEW i \in DOMAIN later[n],
                      later[n][i].type \in TextLike
               PROVE  later[n][i].content \in Seq(Nat \X (Nat \ {0}))
    BY DEF Spoken
  <1>1. CASE n \in DOMAIN view /\ i \in DOMAIN view[n] /\ later[n][i] = view[n][i]
    BY <1>1 DEF Spoken
  <1>2. CASE n = m /\ \E j \in DOMAIN blocks : i = offset + j /\ later[n][i] = blocks[j]
    <2>1. 1 \in DOMAIN One(blocks) /\ One(blocks)[1] = blocks
      BY DEF One
    <2> QED
      BY <1>2, <2>1 DEF Spoken
  <1> QED
    BY <1>1, <1>2, LongerBlocks

LEMMA LongerSettled ==
    ASSUME NEW view, NEW later, NEW m, NEW offset, NEW blocks, NEW calls,
           Longer(view, later, m, offset, blocks),
           ToolsSettled(view, calls), ToolsSettled(One(blocks), calls)
    PROVE  ToolsSettled(later, calls)
  <1> SUFFICES ASSUME NEW n \in DOMAIN later, NEW i \in DOMAIN later[n],
                      later[n][i].type \notin TextLike, later[n][i].tool[1] = "id"
               PROVE  Settled(later[n], later[n][i], calls)
    BY DEF ToolsSettled
  <1>1. CASE n \in DOMAIN view /\ i \in DOMAIN view[n] /\ later[n][i] = view[n][i]
    <2>1. Settled(view[n], later[n][i], calls)
      BY <1>1 DEF ToolsSettled
    <2>2. \A j \in DOMAIN view[n] : j \in DOMAIN later[n] /\ later[n][j] = view[n][j]
      <3>1. CASE n # m
        BY <1>1, <3>1 DEF Longer
      <3>2. CASE n = m
        <4>1. offset \in Nat /\ Len(blocks) \in Nat
          BY DEF Longer
        <4>2. \A j \in 1..offset : j \in 1..(offset + Len(blocks))
          BY <4>1
        <4> QED
          BY <1>1, <3>2, <4>2 DEF Longer
      <3> QED
        BY <3>1, <3>2
    <2> QED
      BY <2>1, <2>2 DEF Settled, CallBlocks, Results
  <1>2. CASE n = m /\ \E j \in DOMAIN blocks : i = offset + j /\ later[n][i] = blocks[j]
    <2>1. 1 \in DOMAIN One(blocks) /\ One(blocks)[1] = blocks
      BY DEF One
    <2>2. Settled(blocks, later[n][i], calls)
      BY <1>2, <2>1 DEF ToolsSettled
    <2>3. \A j \in DOMAIN blocks :
            offset + j \in DOMAIN later[n] /\ later[n][offset + j] = blocks[j]
      <3>1. offset \in Nat /\ Len(blocks) \in Nat
        BY DEF Longer
      <3>2. \A j \in 1..Len(blocks) : offset + j \in 1..(offset + Len(blocks))
        BY <3>1
      <3> QED
        BY <1>2, <3>2 DEF Longer
    <2> QED
      BY <2>2, <2>3 DEF Settled, CallBlocks, Results
  <1> QED
    BY <1>1, <1>2, LongerBlocks

-------------------------------------------------------------------------------
(* The content of an assistant's message, as it is normalized *)

AnyParts == Parts \union CallParts

LEMMA PartTyped ==
    ASSUME NEW part \in AnyParts, NEW host \in Nat, NEW i \in Nat
    PROVE  NormalizeContentPart(part, host, i) \in HistoryBlocks
  <1>1. CASE part \in Parts
    <2>1. part.type \in TextLike /\ part.content \in Pieces
      BY <1>1 DEF Parts
    <2>2. <<host, part.type, i>> \in HistoryIds
      BY <2>1 DEF HistoryIds
    <2>3. "none" \in Statuses /\ {} \in SUBSET Nat /\ None \in Numbers \union {None}
      BY DEF Statuses
    <2> QED
      BY <2>1, <2>2, <2>3 DEF NormalizeContentPart, Block, HistoryBlocks
  <1>2. CASE part \in CallParts
    <2>1. part.type \notin TextLike /\ part.tool \in ToolIds \union {None} /\ part.of \in SUBSET Nat
      BY <1>2 DEF CallParts, TextLike
    <2>2. Numbered(part.tool, i) \in Numbers
      BY <2>1 DEF Numbered, Numbers, ToolIds
    <2>3. <<host, "call", Numbered(part.tool, i)>> \in HistoryIds
      BY <2>2 DEF HistoryIds
    <2>4. "completed" \in Statuses /\ <<>> \in Pieces
      BY DEF Statuses, Pieces
    <2> QED
      BY <2>1, <2>2, <2>3, <2>4 DEF NormalizeContentPart, Block, HistoryBlocks
  <1> QED
    BY <1>1, <1>2 DEF AnyParts

EmptyText(host) == Block(<<host, "text", 0>>, "text", None, {}, <<>>, "none")

LEMMA ContentTyped ==
    ASSUME NEW q \in Seq(AnyParts), NEW host \in Nat
    PROVE  LET blocks == NormalizeContent(q, host)
           IN  /\ blocks \in Seq(HistoryBlocks)
               /\ Len(blocks) \in Nat /\ DOMAIN blocks = 1..Len(blocks)
               /\ q = <<>> => blocks = <<EmptyText(host)>>
               /\ q # <<>> => /\ Len(blocks) = Len(q)
                              /\ \A i \in DOMAIN blocks :
                                   blocks[i] = NormalizeContentPart(q[i], host, i - 1)
  <1> DEFINE blocks == NormalizeContent(q, host)
  <1> SUFFICES /\ blocks \in Seq(HistoryBlocks)
               /\ Len(blocks) \in Nat /\ DOMAIN blocks = 1..Len(blocks)
               /\ q = <<>> => blocks = <<EmptyText(host)>>
               /\ q # <<>> => /\ Len(blocks) = Len(q)
                              /\ \A i \in DOMAIN blocks :
                                   blocks[i] = NormalizeContentPart(q[i], host, i - 1)
    OBVIOUS
  <1>1. CASE q = <<>>
    <2>1. blocks = <<EmptyText(host)>>
      BY <1>1 DEF NormalizeContent, EmptyText
    <2>2. EmptyText(host) \in HistoryBlocks
      <3>1. <<host, "text", 0>> \in HistoryIds
        BY DEF HistoryIds, TextLike
      <3>2. "none" \in Statuses /\ {} \in SUBSET Nat /\ None \in Numbers \union {None}
            /\ <<>> \in Pieces /\ "text" \in TextLike
        BY DEF Statuses, Pieces, TextLike
      <3> QED
        BY <3>1, <3>2 DEF EmptyText, Block, HistoryBlocks
    <2>3. \A S : \A x \in S : <<x>> \in Seq(S) /\ Len(<<x>>) = 1 /\ DOMAIN <<x>> = 1..1
      OBVIOUS
    <2> HIDE DEF blocks
    <2>4. blocks \in Seq(HistoryBlocks) /\ Len(blocks) = 1 /\ DOMAIN blocks = 1..1
      BY <2>1, <2>2, <2>3
    <2> QED
      BY <1>1, <2>1, <2>4
  <1>2. CASE q # <<>>
    <2>1. blocks = [i \in DOMAIN q |-> NormalizeContentPart(q[i], host, i - 1)]
      BY <1>2 DEF NormalizeContent
    <2>2. Len(q) \in Nat /\ DOMAIN q = 1..Len(q)
      BY LenProperties
    <2>3. ASSUME NEW i \in 1..Len(q)
          PROVE  NormalizeContentPart(q[i], host, i - 1) \in HistoryBlocks
      <3>1. q[i] \in AnyParts /\ i - 1 \in Nat
        BY <2>2, ElementOfSeq
      <3> QED
        BY <3>1, PartTyped
    <2>4. blocks \in [1..Len(q) -> HistoryBlocks]
      BY <2>1, <2>2, <2>3
    <2>5. blocks \in Seq(HistoryBlocks) /\ Len(blocks) = Len(q)
      BY <2>2, <2>4
    <2> QED
      BY <1>2, <2>1, <2>2, <2>5
  <1> QED
    BY <1>1, <1>2

(* The parts of a message that ends: what was said, and n calls, of which the  *)
(* i-th is of a tool with an id if ids[i], after count tools.                  *)
Ending(parts0, n, ids, count) ==
    parts0 \o [i \in 1..n |-> CallPart(IF ids[i] THEN ToolId(count + i) ELSE None, count + i)]

CallsRead(from, n, ids, count) ==
    {<< <<1, from + i, 1>>, <<count + i, 0>> >> : i \in {j \in 1..n : ids[j]}}

LEMMA EndingTyped ==
    ASSUME NEW parts0 \in Seq(Parts), NEW n \in Nat, NEW ids \in [1..n -> BOOLEAN],
           NEW count \in Nat
    PROVE  LET q == Ending(parts0, n, ids, count)
           IN  /\ q \in Seq(AnyParts) /\ Len(q) = Len(parts0) + n
               /\ \A i \in 1..Len(parts0) : q[i] = parts0[i]
               /\ \A i \in 1..n :
                    q[Len(parts0) + i]
                      = CallPart(IF ids[i] THEN ToolId(count + i) ELSE None, count + i)
  <1> DEFINE call(i) == CallPart(IF ids[i] THEN ToolId(count + i) ELSE None, count + i)
             c == [i \in 1..n |-> call(i)]
             q == parts0 \o c
             k == Len(parts0)
  <1>1. ASSUME NEW i \in 1..n
        PROVE  call(i) \in CallParts
    <2>1. count + i \in Nat
      OBVIOUS
    <2>2. ToolId(count + i) \in ToolIds
      BY <2>1, ToolIdsDiffer
    <2> QED
      BY <2>1, <2>2 DEF CallPart, CallParts
  <1>2. Ending(parts0, n, ids, count) = q
    BY DEF Ending
  <1> HIDE DEF call
  <1>3. c \in Seq(AnyParts) /\ Len(c) = n
    <2>1. \A i \in 1..n : call(i) \in AnyParts
      BY <1>1 DEF AnyParts
    <2>2. c \in [1..n -> AnyParts]
      BY <2>1
    <2> QED
      BY <2>2
  <1>4. parts0 \in Seq(AnyParts) /\ k \in Nat
    <2>1. Parts \subseteq AnyParts
      BY DEF AnyParts
    <2> QED
      BY <2>1
  <1>5. \A i \in 1..n : c[i] = call(i)
    OBVIOUS
  <1> HIDE DEF c, k
  <1>6. /\ q \in Seq(AnyParts) /\ Len(q) = k + n
        /\ \A i \in 1..(k + n) : q[i] = IF i <= k THEN parts0[i] ELSE c[i - k]
    BY <1>3, <1>4, ConcatProperties DEF k
  <1>7. ASSUME NEW i \in 1..k
        PROVE  q[i] = parts0[i]
    <2>1. i \in 1..(k + n) /\ i <= k
      BY <1>4
    <2> QED
      BY <1>6, <2>1
  <1>8. ASSUME NEW i \in 1..n
        PROVE  q[k + i] = call(i)
    <2>1. k + i \in 1..(k + n) /\ ~(k + i <= k) /\ (k + i) - k = i
      BY <1>4
    <2> QED
      BY <1>5, <1>6, <2>1
  <1> QED
    BY <1>2, <1>6, <1>7, <1>8 DEF call, k

CallOf(host, from, i, named, e) ==
    LET tool == IF named THEN ToolId(e) ELSE <<"tool", from + i - 1>>
    IN  Block(<<host, "call", tool>>, "tool_call", tool, {e}, <<>>, "completed")

TextOf(host, part, i) ==
    Block(<<host, part.type, i - 1>>, part.type, None, {}, part.content, "none")

EndsAs(blocks, parts0, n, ids, count, host) ==
    LET k == Len(parts0)
    IN  /\ \A i \in 1..k : i \in DOMAIN blocks /\ blocks[i] = TextOf(host, parts0[i], i)
        /\ \A i \in 1..n : /\ k + i \in DOMAIN blocks
                           /\ blocks[k + i] = CallOf(host, k, i, ids[i], count + i)
        /\ \A j \in DOMAIN blocks : \/ j \in 1..k
                                    \/ \E i \in 1..n : j = k + i
                                    \/ k = 0 /\ n = 0 /\ blocks[j] = EmptyText(host)

LEMMA EndingBlocks ==
    ASSUME NEW parts0 \in Seq(Parts), NEW n \in Nat, NEW ids \in [1..n -> BOOLEAN],
           NEW count \in Nat, NEW host \in Nat
    PROVE  LET blocks == NormalizeContent(Ending(parts0, n, ids, count), host)
           IN  /\ blocks \in Seq(HistoryBlocks)
               /\ Len(blocks) \in Nat /\ DOMAIN blocks = 1..Len(blocks)
               /\ EndsAs(blocks, parts0, n, ids, count, host)
  <1> DEFINE q == Ending(parts0, n, ids, count)
             blocks == NormalizeContent(q, host)
             k == Len(parts0)
  <1>1. /\ q \in Seq(AnyParts) /\ Len(q) = k + n
        /\ \A i \in 1..k : q[i] = parts0[i]
        /\ \A i \in 1..n :
             q[k + i] = CallPart(IF ids[i] THEN ToolId(count + i) ELSE None, count + i)
    BY EndingTyped
  <1>2. /\ blocks \in Seq(HistoryBlocks)
        /\ Len(blocks) \in Nat /\ DOMAIN blocks = 1..Len(blocks)
        /\ q = <<>> => blocks = <<EmptyText(host)>>
        /\ q # <<>> => /\ Len(blocks) = Len(q)
                       /\ \A i \in DOMAIN blocks :
                            blocks[i] = NormalizeContentPart(q[i], host, i - 1)
    BY <1>1, ContentTyped
  <1>3. k \in Nat /\ \A i \in 1..k : parts0[i] \in Parts
    BY ElementOfSeq
  <1> SUFFICES EndsAs(blocks, parts0, n, ids, count, host)
    BY <1>2
  <1> HIDE DEF q, blocks, k
  <1>4. CASE q = <<>>
    <2>1. k = 0 /\ n = 0
      <3>1. Len(q) = 0
        BY <1>4
      <3> QED
        BY <1>1, <1>3, <3>1
    <2>2. DOMAIN blocks = {1} /\ blocks[1] = EmptyText(host)
      BY <1>2, <1>4
    <2> QED
      BY <2>1, <2>2 DEF EndsAs, k
  <1>5. CASE q # <<>>
    <2>1. /\ Len(blocks) = k + n /\ DOMAIN blocks = 1..(k + n)
          /\ \A i \in DOMAIN blocks : blocks[i] = NormalizeContentPart(q[i], host, i - 1)
      BY <1>1, <1>2, <1>5
    <2>2. ASSUME NEW i \in 1..k
          PROVE  i \in DOMAIN blocks /\ blocks[i] = TextOf(host, parts0[i], i)
      <3>1. i \in 1..(k + n)
        BY <1>3
      <3>2. parts0[i].type \in TextLike
        BY <1>3 DEF Parts
      <3>3. NormalizeContentPart(parts0[i], host, i - 1) = TextOf(host, parts0[i], i)
        BY <3>2 DEF NormalizeContentPart, TextOf
      <3> QED
        BY <1>1, <2>1, <3>1, <3>3
    <2>3. ASSUME NEW i \in 1..n
          PROVE  k + i \in DOMAIN blocks /\ blocks[k + i] = CallOf(host, k, i, ids[i], count + i)
      <3>1. k + i \in 1..(k + n)
        BY <1>3
      <3> DEFINE part == CallPart(IF ids[i] THEN ToolId(count + i) ELSE None, count + i)
      <3>2. /\ part.type = "tool_call" /\ part.of = {count + i}
            /\ part.tool = IF ids[i] THEN ToolId(count + i) ELSE None
        BY DEF CallPart
      <3>3. part.type \notin TextLike
        BY <3>2 DEF TextLike
      <3>4. ToolId(count + i) # None
        BY ToolIdsDiffer
      <3> HIDE DEF part
      <3>5. Numbered(part.tool, k + i - 1)
              = IF ids[i] THEN ToolId(count + i) ELSE <<"tool", k + i - 1>>
        BY <3>2, <3>4 DEF Numbered
      <3>6. NormalizeContentPart(part, host, k + i - 1) = CallOf(host, k, i, ids[i], count + i)
        BY <3>2, <3>3, <3>5 DEF NormalizeContentPart, CallOf
      <3>7. q[k + i] = part
        BY <1>1 DEF part
      <3>8. blocks[k + i] = NormalizeContentPart(part, host, k + i - 1)
        <4>1. k + i \in DOMAIN blocks
          BY <2>1, <3>1
        <4>2. blocks[k + i] = NormalizeContentPart(q[k + i], host, k + i - 1)
          BY <1>3, <2>1, <4>1
        <4> QED
          BY <3>7, <4>2
      <3> QED
        BY <2>1, <3>1, <3>6, <3>8
    <2>4. ASSUME NEW j \in DOMAIN blocks
          PROVE  j \in 1..k \/ \E i \in 1..n : j = k + i
      <3>1. CASE j <= k
        BY <1>3, <2>1, <3>1
      <3>2. CASE ~(j <= k)
        <4>1. j - k \in 1..n /\ j = k + (j - k)
          BY <1>3, <2>1, <3>2
        <4> QED
          BY <4>1
      <3> QED
        BY <3>1, <3>2
    <2> QED
      BY <2>2, <2>3, <2>4 DEF EndsAs, k
  <1> QED
    BY <1>4, <1>5

(* What it gives to read: what was said, and then the calls of tools with ids. *)
LEMMA EndingReads ==
    ASSUME NEW parts0 \in Seq(Parts), NEW n \in Nat, NEW ids \in [1..n -> BOOLEAN],
           NEW count \in Nat, NEW host \in Nat, NEW type \in TextLike
    PROVE  Reading(One(NormalizeContent(Ending(parts0, n, ids, count), host)), type)
             = Reading(One(parts0), type) \union CallsRead(Len(parts0), n, ids, count)
  <1> DEFINE blocks == NormalizeContent(Ending(parts0, n, ids, count), host)
             k == Len(parts0)
             view == One(blocks)
             said0 == Reading(One(parts0), type)
             called == CallsRead(k, n, ids, count)
  <1>0. "tool_call" \notin TextLike
    BY DEF TextLike
  <1>1. /\ \A i \in 1..k : i \in DOMAIN blocks /\ blocks[i] = TextOf(host, parts0[i], i)
        /\ \A i \in 1..n : /\ k + i \in DOMAIN blocks
                           /\ blocks[k + i] = CallOf(host, k, i, ids[i], count + i)
        /\ \A j \in DOMAIN blocks : \/ j \in 1..k
                                    \/ \E i \in 1..n : j = k + i
                                    \/ k = 0 /\ n = 0 /\ blocks[j] = EmptyText(host)
    <2>1. EndsAs(blocks, parts0, n, ids, count, host)
      BY EndingBlocks
    <2> HIDE DEF blocks
    <2> QED
      BY <2>1 DEF EndsAs
  <1>2. k \in Nat /\ DOMAIN parts0 = 1..k /\ \A i \in 1..k : parts0[i] \in Parts
    BY ElementOfSeq, LenProperties
  <1>3. ASSUME NEW i \in 1..k
        PROVE  Marks(blocks[i], type) = Marks(parts0[i], type)
    <2> HIDE DEF blocks, k
    <2>0. blocks[i] = TextOf(host, parts0[i], i)
      BY <1>1
    <2>1. blocks[i].type = parts0[i].type /\ blocks[i].content = parts0[i].content
      BY <2>0 DEF TextOf, Block
    <2>2. parts0[i].type \in TextLike
      BY <1>2 DEF Parts
    <2> QED
      BY <1>0, <2>1, <2>2 DEF Marks
  <1>4. ASSUME NEW i \in 1..n
        PROVE  Marks(blocks[k + i], type) = IF ids[i] THEN << <<count + i, 0>> >> ELSE <<>>
    <2> DEFINE tool == IF ids[i] THEN ToolId(count + i) ELSE <<"tool", k + i - 1>>
    <2> HIDE DEF blocks, k
    <2>0. blocks[k + i] = CallOf(host, k, i, ids[i], count + i)
      BY <1>1
    <2>1. blocks[k + i].type = "tool_call" /\ blocks[k + i].tool = tool
      BY <2>0 DEF CallOf, Block
    <2>2. ids[i] => tool[1] = "id" /\ tool[2] = count + i
      BY DEF ToolId
    <2>3. ~ids[i] => tool[1] # "id"
      OBVIOUS
    <2> HIDE DEF tool
    <2> QED
      BY <1>0, <2>1, <2>2, <2>3 DEF Marks
  <1>5. Marks(EmptyText(host), type) = <<>>
    BY <1>0 DEF Marks, EmptyText, Block
  <1>6. 1 \in DOMAIN view /\ DOMAIN view = {1} /\ view[1] = blocks
        /\ 1 \in DOMAIN One(parts0) /\ DOMAIN One(parts0) = {1} /\ One(parts0)[1] = parts0
    BY DEF One
  <1> HIDE DEF blocks, k, view
  <1>7. ASSUME NEW s \in Reading(view, type)
        PROVE  s \in said0 \union called
    <2>1. PICK m \in DOMAIN view : \E i \in DOMAIN view[m] :
                 \E c \in DOMAIN Marks(view[m][i], type) :
                   s = << <<m, i, c>>, Marks(view[m][i], type)[c] >>
      BY ReadingAt
    <2>2. PICK j \in DOMAIN blocks : \E c \in DOMAIN Marks(blocks[j], type) :
                   s = << <<1, j, c>>, Marks(blocks[j], type)[c] >>
      BY <1>6, <2>1
    <2>3. PICK c \in DOMAIN Marks(blocks[j], type) :
                   s = << <<1, j, c>>, Marks(blocks[j], type)[c] >>
      BY <2>2
    <2>4. CASE j \in 1..k
      <3>1. c \in DOMAIN Marks(parts0[j], type) /\ s = << <<1, j, c>>, Marks(parts0[j], type)[c] >>
        BY <1>3, <2>3, <2>4
      <3>2. << <<1, j, c>>, Marks(One(parts0)[1][j], type)[c] >> \in said0
        BY <1>2, <1>6, <2>4, <3>1, ReadingAt
      <3> QED
        BY <1>6, <3>1, <3>2
    <2>5. CASE \E i \in 1..n : j = k + i
      <3>1. PICK i \in 1..n : j = k + i
        BY <2>5
      <3>2. ids[i] /\ Marks(blocks[j], type) = << <<count + i, 0>> >>
        <4>1. Marks(blocks[j], type) = IF ids[i] THEN << <<count + i, 0>> >> ELSE <<>>
          BY <1>4, <3>1
        <4>2. Marks(blocks[j], type) # <<>>
          BY <2>3
        <4> QED
          BY <4>1, <4>2
      <3>3. c = 1 /\ Marks(blocks[j], type)[c] = <<count + i, 0>>
        BY <2>3, <3>2
      <3> QED
        BY <2>3, <3>1, <3>2, <3>3 DEF CallsRead
    <2>6. CASE blocks[j] = EmptyText(host)
      BY <1>5, <2>3, <2>6
    <2> QED
      BY <1>1, <2>4, <2>5, <2>6
  <1>8. ASSUME NEW s \in said0
        PROVE  s \in Reading(view, type)
    <2>1. PICK m \in DOMAIN One(parts0) : \E i \in DOMAIN One(parts0)[m] :
                 \E c \in DOMAIN Marks(One(parts0)[m][i], type) :
                   s = << <<m, i, c>>, Marks(One(parts0)[m][i], type)[c] >>
      BY ReadingAt
    <2>2. PICK j \in 1..k : \E c \in DOMAIN Marks(parts0[j], type) :
                   s = << <<1, j, c>>, Marks(parts0[j], type)[c] >>
      BY <1>2, <1>6, <2>1
    <2>3. j \in DOMAIN blocks /\ Marks(blocks[j], type) = Marks(parts0[j], type)
      BY <1>1, <1>3
    <2> QED
      BY <1>6, <2>2, <2>3, ReadingAt
  <1>9. ASSUME NEW s \in called
        PROVE  s \in Reading(view, type)
    <2>1. PICK i \in 1..n : ids[i] /\ s = << <<1, k + i, 1>>, <<count + i, 0>> >>
      BY DEF CallsRead
    <2>2. k + i \in DOMAIN blocks /\ Marks(blocks[k + i], type) = << <<count + i, 0>> >>
      BY <1>1, <1>4, <2>1
    <2>3. 1 \in DOMAIN Marks(blocks[k + i], type)
          /\ Marks(blocks[k + i], type)[1] = <<count + i, 0>>
      BY <2>2
    <2> QED
      BY <1>6, <2>1, <2>2, <2>3, ReadingAt
  <1> QED
    BY <1>7, <1>8, <1>9 DEF view, blocks, k

(* normalizeMessages of an assistant's entry *)
LEMMA AssistantAdded ==
    ASSUME NEW messages \in Seq(Messages), NEW q \in Seq(AnyParts), NEW index \in Nat
    PROVE  LET blocks == NormalizeContent(q, index)
               later == NormalizeMerging(messages, AssistantEntry(q), index)
           IN  /\ later \in Seq(Messages) /\ HasAssistant(later)
               /\ \E m \in DOMAIN AnswersOf(later), offset \in Nat :
                    /\ Longer(AnswersOf(messages), AnswersOf(later), m, offset, blocks)
                    /\ Last(later).blocks = AnswersOf(later)[m]
  <1> DEFINE blocks == NormalizeContent(q, index)
             later == NormalizeMerging(messages, AssistantEntry(q), index)
             view == AnswersOf(messages)
             n == Len(messages)
             Goal == /\ later \in Seq(Messages) /\ HasAssistant(later)
                     /\ \E m \in DOMAIN AnswersOf(later), offset \in Nat :
                          /\ Longer(view, AnswersOf(later), m, offset, blocks)
                          /\ Last(later).blocks = AnswersOf(later)[m]
  <1> SUFFICES Goal
    OBVIOUS
  <1>1. /\ blocks \in Seq(HistoryBlocks)
        /\ Len(blocks) \in Nat /\ DOMAIN blocks = 1..Len(blocks)
    BY ContentTyped
  <1>2. n \in Nat /\ DOMAIN messages = 1..n /\ \A m \in 1..n : messages[m] \in Messages
    BY ElementOfSeq, LenProperties
  <1>3. /\ AssistantEntry(q).role = "assistant" /\ AssistantEntry(q).parts = q
    BY DEF AssistantEntry
  <1> HIDE DEF blocks
  <1>4. DOMAIN view \subseteq 1..n /\ \A m \in DOMAIN view : view[m] = messages[m].blocks
    BY <1>2 DEF AnswersOf
  <1>5. CASE HasAssistant(messages)
    <2> DEFINE last == Last(messages)
               longer == last.blocks \o blocks
               message == [last EXCEPT !.blocks = longer]
    <2>1. later = WithLast(messages, message)
      BY <1>3, <1>5 DEF NormalizeMerging, blocks
    <2>2. n # 0 /\ last = messages[n] /\ last.role = "assistant" /\ last \in Messages
      <3>1. messages # <<>>
        BY <1>5 DEF HasAssistant
      <3>2. n # 0
        BY <3>1, EmptySeq
      <3>3. n \in 1..n
        BY <1>2, <3>2
      <3> QED
        BY <1>2, <1>5, <3>2, <3>3 DEF Last, HasAssistant
    <2> DEFINE offset == Len(last.blocks)
    <2>3. last.blocks \in Seq(HistoryBlocks) /\ offset \in Nat /\ DOMAIN last.blocks = 1..offset
      <3>1. last.blocks \in Seq(HistoryBlocks)
        BY <2>2 DEF Messages
      <3> QED
        BY <3>1, LenProperties
    <2> HIDE DEF last
    <2>4. /\ longer \in Seq(HistoryBlocks) /\ Len(longer) = offset + Len(blocks)
          /\ \A i \in 1..(offset + Len(blocks)) :
               longer[i] = IF i <= offset THEN last.blocks[i] ELSE blocks[i - offset]
      BY <1>1, <2>3, ConcatProperties
    <2>5. DOMAIN longer = 1..(offset + Len(blocks))
      BY <2>4, LenProperties
    <2>6. /\ message \in Messages /\ message.role = "assistant" /\ message.blocks = longer
      <3> HIDE DEF longer
      <3> QED
        BY <2>2, <2>4 DEF Messages
    <2> HIDE DEF message, longer, offset
    <2>7. /\ later \in Seq(Messages) /\ Len(later) = n /\ DOMAIN later = DOMAIN messages
          /\ later[n] = message /\ Last(later) = message
          /\ \A m \in DOMAIN messages : m # n => later[m] = messages[m]
      <3> HIDE DEF later
      <3> QED
        BY <1>5, <2>1, <2>6, LastReplaced
    <2> HIDE DEF later
    <2>8. /\ n \in DOMAIN view /\ view[n] = last.blocks
      BY <1>2, <2>2 DEF AnswersOf
    <2>9. /\ DOMAIN AnswersOf(later) = DOMAIN view
          /\ AnswersOf(later)[n] = longer
          /\ \A m \in DOMAIN view : m # n => AnswersOf(later)[m] = view[m]
      <3>1. n \in DOMAIN messages /\ messages[n].role = "assistant"
        BY <1>2, <2>2
      <3> QED
        BY <2>6, <2>7, <3>1 DEF AnswersOf
    <2>10. \A i \in 1..offset : longer[i] = last.blocks[i]
      <3> SUFFICES ASSUME NEW i \in 1..offset
                   PROVE  longer[i] = last.blocks[i]
        OBVIOUS
      <3>1. i \in 1..(offset + Len(blocks)) /\ i <= offset
        BY <1>1, <2>3
      <3> QED
        BY <2>4, <3>1
    <2>11. \A i \in 1..Len(blocks) : longer[offset + i] = blocks[i]
      <3> SUFFICES ASSUME NEW i \in 1..Len(blocks)
                   PROVE  longer[offset + i] = blocks[i]
        OBVIOUS
      <3>1. offset + i \in 1..(offset + Len(blocks)) /\ ~(offset + i <= offset)
            /\ (offset + i) - offset = i
        BY <1>1, <2>3
      <3> QED
        BY <2>4, <3>1
    <2>12. Longer(view, AnswersOf(later), n, offset, blocks)
      <3> HIDE DEF view, n
      <3>1. n \in Nat /\ DOMAIN view \subseteq Nat /\ \A m \in DOMAIN view : m <= n
        BY <1>2, <1>4
      <3> QED
        BY <1>1, <2>3, <2>5, <2>8, <2>9, <2>10, <2>11, <3>1 DEF Longer
    <2>13. HasAssistant(later)
      <3>1. later # <<>>
        BY <1>2, <2>2, <2>7
      <3> QED
        BY <2>6, <2>7, <3>1 DEF HasAssistant
    <2> QED
      BY <2>3, <2>6, <2>7, <2>8, <2>9, <2>12, <2>13
  <1>6. CASE ~HasAssistant(messages)
    <2> DEFINE message == Shown("assistant", index, blocks)
    <2>1. later = Append(messages, message)
      BY <1>3, <1>6 DEF NormalizeMerging, blocks
    <2>2. message \in Messages /\ message.role = "assistant" /\ message.blocks = blocks
      BY <1>1 DEF Shown, Messages
    <2> HIDE DEF message
    <2>3. /\ later \in Seq(Messages) /\ Len(later) = n + 1
          /\ DOMAIN later = DOMAIN messages \union {n + 1}
          /\ later[n + 1] = message /\ Last(later) = message
          /\ \A m \in DOMAIN messages : later[m] = messages[m]
          /\ later # <<>>
      <3> HIDE DEF later
      <3> QED
        BY <2>1, <2>2, MessageAdded
    <2> HIDE DEF later
    <2>4. n + 1 \notin DOMAIN messages
      BY <1>2
    <2>5. /\ DOMAIN AnswersOf(later) = DOMAIN view \union {n + 1}
          /\ AnswersOf(later)[n + 1] = blocks
          /\ \A m \in DOMAIN view : AnswersOf(later)[m] = view[m]
      BY <2>2, <2>3, <2>4 DEF AnswersOf
    <2>6. Longer(view, AnswersOf(later), n + 1, 0, blocks)
      <3> HIDE DEF view
      <3>1. /\ n + 1 \in Nat /\ DOMAIN view \subseteq Nat /\ \A m \in DOMAIN view : m <= n + 1
            /\ n + 1 \notin DOMAIN view
        BY <1>2, <1>4
      <3>2. \A i \in 1..Len(blocks) : 0 + i = i
        BY <1>1
      <3>3. 0 + Len(blocks) = Len(blocks)
        BY <1>1
      <3> HIDE DEF n
      <3> QED
        BY <1>1, <2>5, <3>1, <3>2, <3>3 DEF Longer
    <2>7. HasAssistant(later)
      BY <2>2, <2>3 DEF HasAssistant
    <2> QED
      BY <2>2, <2>3, <2>5, <2>6, <2>7
  <1> QED
    BY <1>5, <1>6

-------------------------------------------------------------------------------
(* What is read of the turn *)

Written(view) ==
    /\ DOMAIN view \subseteq Nat
    /\ \A m \in DOMAIN view :
        /\ DOMAIN view[m] \subseteq Nat
        /\ \A i \in DOMAIN view[m] : view[m][i].content \in Pieces

LEMMA WrittenIsRead ==
    ASSUME NEW view, Written(view), NEW calls, DOMAIN calls \subseteq Nat,
           ToolsSettled(view, calls), NEW type \in TextLike
    PROVE  Definite(Reading(view, type))
  <1>1. ASSUME NEW m \in DOMAIN view, NEW i \in DOMAIN view[m]
        PROVE  Marks(view[m][i], type) \in Seq(Nat \X Nat)
    <2> DEFINE b == view[m][i]
    <2>0. "tool_call" \notin TextLike
      BY DEF TextLike
    <2>1. CASE b.type = type
      <3>1. Marks(b, type) = b.content
        BY <2>0, <2>1 DEF Marks
      <3>2. b.content \in Pieces
        BY DEF Written
      <3> QED
        BY <3>1, <3>2 DEF Pieces
    <2>2. CASE b.type # type /\ b.type = "tool_call" /\ b.tool[1] = "id"
      <3>1. Marks(b, type) = << <<b.tool[2], 0>> >>
        BY <2>2 DEF Marks
      <3>2. b.tool[2] \in DOMAIN calls
        BY <2>0, <2>2 DEF ToolsSettled, Settled
      <3>3. <<b.tool[2], 0>> \in Nat \X Nat
        BY <3>2
      <3>4. \A x \in Nat \X Nat : <<x>> \in Seq(Nat \X Nat)
        OBVIOUS
      <3> QED
        BY <3>1, <3>3, <3>4
    <2>3. CASE b.type # type /\ ~(b.type = "tool_call" /\ b.tool[1] = "id")
      <3>1. Marks(b, type) = <<>>
        BY <2>3 DEF Marks
      <3> QED
        BY <3>1
    <2> QED
      BY <2>1, <2>2, <2>3
  <1>2. Legible(view, type)
    BY <1>1 DEF Written, Legible
  <1> QED
    BY <1>2, ReadingTyped

LEMMA OneWritten ==
    ASSUME NEW blocks, Len(blocks) \in Nat, DOMAIN blocks = 1..Len(blocks),
           \A i \in DOMAIN blocks : blocks[i].content \in Pieces
    PROVE  Written(One(blocks))
  BY DEF Written, One

LEMMA PartsRead ==
    ASSUME NEW q \in Seq(Parts), NEW type \in TextLike
    PROVE  Definite(Reading(One(q), type))
  <1>1. Len(q) \in Nat /\ DOMAIN q = 1..Len(q) /\ \A i \in DOMAIN q : q[i] \in Parts
    BY ElementOfSeq, LenProperties
  <1>2. Written(One(q))
    BY <1>1, OneWritten DEF Parts
  <1>3. ToolsSettled(One(q), <<>>)
    BY <1>1 DEF ToolsSettled, One, Parts
  <1>4. DOMAIN <<>> \subseteq Nat
    OBVIOUS
  <1> QED
    BY <1>2, <1>3, <1>4, WrittenIsRead

LEMMA AnswersWritten ==
    ASSUME NEW messages \in Seq(Messages)
    PROVE  Written(AnswersOf(messages))
  <1>1. /\ Len(messages) \in Nat /\ DOMAIN messages = 1..Len(messages)
        /\ \A m \in DOMAIN messages : messages[m] \in Messages
    BY ElementOfSeq, LenProperties
  <1>2. ASSUME NEW m \in DOMAIN messages
        PROVE  /\ DOMAIN messages[m].blocks \subseteq Nat
               /\ \A i \in DOMAIN messages[m].blocks :
                    messages[m].blocks[i].content \in Pieces
    <2>1. messages[m].blocks \in Seq(HistoryBlocks)
      BY <1>1 DEF Messages
    <2>2. \A i \in DOMAIN messages[m].blocks : messages[m].blocks[i] \in HistoryBlocks
      BY <2>1, ElementOfSeq, LenProperties
    <2> QED
      BY <2>1, <2>2 DEF HistoryBlocks
  <1> QED
    BY <1>1, <1>2 DEF Written, AnswersOf

LEMMA LiveWritten ==
    ASSUME live \in Projections
    PROVE  Written(One(live.blocks))
  <1>1. live.blocks \in Seq(Blocks)
    BY DEF Projections
  <1>2. /\ Len(live.blocks) \in Nat /\ DOMAIN live.blocks = 1..Len(live.blocks)
        /\ \A i \in DOMAIN live.blocks : live.blocks[i] \in Blocks
    BY <1>1, ElementOfSeq, LenProperties
  <1> QED
    BY <1>2, OneWritten DEF Blocks

(* Tools may be asked for without any effect on what is settled. *)
MoreCalls(calls, later) ==
    DOMAIN calls \subseteq DOMAIN later /\ \A e \in DOMAIN calls : later[e] = calls[e]

LEMMA SettledLater ==
    ASSUME NEW view, NEW calls, NEW later, MoreCalls(calls, later), ToolsSettled(view, calls)
    PROVE  ToolsSettled(view, later)
  BY DEF ToolsSettled, Settled, MoreCalls

NewCalls(calls, n, ids, count) ==
    \A i \in 1..n : /\ count + i \in DOMAIN calls /\ calls[count + i].state # "ended"
                    /\ calls[count + i].tool = IF ids[i] THEN ToolId(count + i) ELSE None

(* What is told by the blocks of a message that ended with n calls *)
EndingSound(blocks, n, ids, count, calls) ==
    /\ Spoken(One(blocks)) /\ ToolsSettled(One(blocks), calls)
    /\ \A j \in DOMAIN blocks : blocks[j].id[2] # "result" /\ blocks[j].type # "tool_result"
    /\ \A i \in 1..n : ids[i] => CallBlocks(blocks, ToolId(count + i)) # {}

LEMMA EndingSettled ==
    ASSUME NEW parts0 \in Seq(Parts), NEW n \in Nat, NEW ids \in [1..n -> BOOLEAN],
           NEW count \in Nat, NEW host \in Nat, Spoken(One(parts0)), NEW calls,
           NewCalls(calls, n, ids, count)
    PROVE  EndingSound(NormalizeContent(Ending(parts0, n, ids, count), host), n, ids, count, calls)
  <1> DEFINE blocks == NormalizeContent(Ending(parts0, n, ids, count), host)
             k == Len(parts0)
             Formed(b) == /\ b.id[2] # "result" /\ b.type # "tool_result"
                          /\ b.type \in TextLike => b.content \in Seq(Nat \X (Nat \ {0}))
                          /\ b.type \notin TextLike /\ b.tool[1] = "id" =>
                                Settled(blocks, b, calls)
  <1> SUFFICES EndingSound(blocks, n, ids, count, calls)
    OBVIOUS
  <1>0. "tool_call" \notin TextLike /\ "result" \notin TextLike /\ "tool_result" \notin TextLike
        /\ "text" \in TextLike
    BY DEF TextLike
  <1>1. EndsAs(blocks, parts0, n, ids, count, host)
    BY EndingBlocks
  <1>2. k \in Nat /\ DOMAIN parts0 = 1..k /\ \A i \in 1..k : parts0[i] \in Parts
    BY ElementOfSeq, LenProperties
  <1> HIDE DEF blocks
  <1>3. ASSUME NEW i \in 1..k
        PROVE  Formed(blocks[i])
    <2>1. blocks[i] = TextOf(host, parts0[i], i)
      BY <1>1 DEF EndsAs
    <2>2. parts0[i].type \in TextLike
      BY <1>2 DEF Parts
    <2>3. parts0[i].content \in Seq(Nat \X (Nat \ {0}))
      BY <1>2, <2>2 DEF Spoken, One
    <2>4. /\ blocks[i].type = parts0[i].type /\ blocks[i].content = parts0[i].content
          /\ blocks[i].id[2] = parts0[i].type
      BY <2>1 DEF TextOf, Block
    <2> QED
      BY <1>0, <2>2, <2>3, <2>4
  <1>4. ASSUME NEW i \in 1..n
        PROVE  /\ Formed(blocks[k + i])
               /\ ids[i] => CallBlocks(blocks, ToolId(count + i)) # {}
    <2>1. k + i \in DOMAIN blocks /\ blocks[k + i] = CallOf(host, k, i, ids[i], count + i)
      BY <1>1 DEF EndsAs
    <2> DEFINE tool == IF ids[i] THEN ToolId(count + i) ELSE <<"tool", k + i - 1>>
    <2>2. /\ blocks[k + i].type = "tool_call" /\ blocks[k + i].tool = tool
          /\ blocks[k + i].of = {count + i} /\ blocks[k + i].id[2] = "call"
      BY <2>1 DEF CallOf, Block
    <2>3. ids[i] => tool = ToolId(count + i) /\ tool[2] = count + i
      BY DEF ToolId
    <2>4. ~ids[i] => tool[1] # "id"
      OBVIOUS
    <2> HIDE DEF tool
    <2>5. k + i \in CallBlocks(blocks, tool)
      BY <2>1, <2>2 DEF CallBlocks
    <2>6. ids[i] => Settled(blocks, blocks[k + i], calls)
      <3> SUFFICES ASSUME ids[i]
                   PROVE  Settled(blocks, blocks[k + i], calls)
        OBVIOUS
      <3>1. /\ blocks[k + i].tool[2] = count + i /\ blocks[k + i].tool = ToolId(count + i)
            /\ blocks[k + i].of = {count + i} /\ CallBlocks(blocks, blocks[k + i].tool) # {}
        BY <2>2, <2>3, <2>5
      <3>2. /\ count + i \in DOMAIN calls /\ calls[count + i].state # "ended"
            /\ calls[count + i].tool = ToolId(count + i)
        BY DEF NewCalls
      <3> QED
        BY <3>1, <3>2 DEF Settled
    <2> QED
      BY <1>0, <2>2, <2>3, <2>4, <2>5, <2>6
  <1>5. Formed(EmptyText(host))
    <2>1. /\ EmptyText(host).type = "text" /\ EmptyText(host).content = <<>>
          /\ EmptyText(host).id[2] = "text"
      BY DEF EmptyText, Block
    <2>2. <<>> \in Seq(Nat \X (Nat \ {0}))
      OBVIOUS
    <2> QED
      BY <1>0, <2>1, <2>2
  <1>6. \A j \in DOMAIN blocks : Formed(blocks[j])
    BY <1>1, <1>3, <1>4, <1>5 DEF EndsAs
  <1>7. Spoken(One(blocks))
    BY <1>6 DEF Spoken, One
  <1>8. ToolsSettled(One(blocks), calls)
    <2> HIDE DEF Formed
    <2>1. \A j \in DOMAIN blocks : blocks[j].type \notin TextLike /\ blocks[j].tool[1] = "id" =>
                                    Settled(blocks, blocks[j], calls)
      BY <1>6 DEF Formed
    <2> QED
      BY <2>1 DEF ToolsSettled, One
  <1> QED
    BY <1>4, <1>6, <1>7, <1>8 DEF EndingSound

(* `later` are the tools, with those asked for by a message that ended. *)
AskedMore(calls, later, n, ids) ==
    /\ n \in Nat /\ Len(calls) \in Nat /\ DOMAIN calls = 1..Len(calls)
    /\ Len(later) = Len(calls) + n /\ DOMAIN later = 1..(Len(calls) + n)
    /\ MoreCalls(calls, later)
    /\ \A i \in 1..n :
         /\ Len(calls) + i \in DOMAIN later
         /\ later[Len(calls) + i].tool = IF ids[i] THEN ToolId(Len(calls) + i) ELSE None
         /\ later[Len(calls) + i].state = "asked"
    /\ \A e \in DOMAIN later : e \notin DOMAIN calls => \E i \in 1..n : e = Len(calls) + i

LEMMA CallsAsked ==
    ASSUME LiveInv, NEW n \in 0..MaxTools, NEW ids \in [1..n -> BOOLEAN], MessageEnd(n, ids)
    PROVE  /\ AskedMore(tools, tools', n, ids)
           /\ entries' = Append(entries, AssistantEntry(Ending(parts, n, ids, Len(tools))))
  <1> DEFINE c == Len(tools)
             id(i) == IF ids[i] THEN ToolId(c + i) ELSE None
             asked == [i \in 1..n |-> id(i)]
             added == [i \in 1..n |-> [tool |-> asked[i], state |-> "asked", chunks |-> 0]]
             l == tools \o added
  <1>1. tools \in Seq(Calls) /\ n \in Nat /\ c \in Nat /\ DOMAIN tools = 1..c /\ 0 \in 0..MaxChunks
    <2>1. tools \in Seq(Calls)
      BY InvariantTyped
    <2> QED
      BY <2>1, LenProperties, LiveTurnAssumption
  <1>2. tools' = l /\ entries' = Append(entries, AssistantEntry(
                            parts \o [i \in 1..n |-> CallPart(asked[i], c + i)]))
    BY DEF MessageEnd
  <1>3. Ending(parts, n, ids, c) = parts \o [i \in 1..n |-> CallPart(asked[i], c + i)]
    BY DEF Ending
  <1>4. ASSUME NEW i \in 1..n
        PROVE  id(i) \in ToolIds \union {None}
    BY <1>1, ToolIdsDiffer
  <1> HIDE DEF id
  <1>5. \A i \in 1..n : added[i].tool = id(i) /\ added[i].state = "asked"
    OBVIOUS
  <1>6. added \in Seq(Calls) /\ Len(added) = n
    <2>1. \A i \in 1..n : [tool |-> id(i), state |-> "asked", chunks |-> 0] \in Calls
      BY <1>1, <1>4 DEF Calls, Ran
    <2>2. added \in [1..n -> Calls]
      BY <2>1
    <2> HIDE DEF added
    <2> QED
      BY <1>1, <2>2
  <1> HIDE DEF added, asked, c
  <1>7. /\ Len(l) = c + n
        /\ \A e \in 1..(c + n) : l[e] = IF e <= c THEN tools[e] ELSE added[e - c]
        /\ DOMAIN l = 1..(c + n)
    <2>1. /\ l \in Seq(Calls) /\ Len(l) = c + n
          /\ \A e \in 1..(c + n) : l[e] = IF e <= c THEN tools[e] ELSE added[e - c]
      BY <1>1, <1>6, ConcatProperties DEF c
    <2> QED
      BY <2>1, LenProperties
  <1> HIDE DEF l
  <1>8. MoreCalls(tools, l)
    <2>1. ASSUME NEW e \in 1..c
          PROVE  e \in 1..(c + n) /\ e <= c
      BY <1>1
    <2> QED
      BY <1>1, <1>7, <2>1 DEF MoreCalls
  <1>9. ASSUME NEW i \in 1..n
        PROVE  /\ c + i \in DOMAIN l /\ l[c + i].tool = id(i) /\ l[c + i].state = "asked"
    <2>1. c + i \in 1..(c + n) /\ ~(c + i <= c) /\ (c + i) - c = i
      BY <1>1
    <2>2. l[c + i] = added[i]
      BY <1>7, <2>1
    <2>3. added[i].tool = id(i) /\ added[i].state = "asked"
      BY <1>5
    <2>4. c + i \in DOMAIN l
      BY <1>7, <2>1
    <2> QED
      BY <2>2, <2>3, <2>4
  <1>10. ASSUME NEW e \in DOMAIN l, e \notin DOMAIN tools
         PROVE  \E i \in 1..n : e = c + i
    <2>1. e - c \in 1..n /\ e = c + (e - c)
      BY <1>1, <1>7, <1>10
    <2> QED
      BY <2>1
  <1> QED
    BY <1>1, <1>2, <1>3, <1>7, <1>8, <1>9, <1>10 DEF id, c, AskedMore

(* What is known of a turn that is made *)
ReadSoFar(shown, told, saying, calls, last) ==
    /\ Definite(shown) /\ Definite(told) /\ Definite(saying)
    /\ Read(shown) \subseteq Nat \X Nat /\ Read(told) \subseteq Nat \X Nat
    /\ Read(saying) \subseteq Nat \X Nat
    /\ OrderSound(shown, told, saying, calls, last)

LEMMA TurnRead ==
    ASSUME NEW blocks, Written(One(blocks)), NEW messages, NEW saying \in Seq(Parts),
           NEW calls, DOMAIN calls \subseteq Nat, NEW last, NEW type \in TextLike,
           TurnSound(blocks, messages, saying, calls, last)
    PROVE  ReadSoFar(Reading(One(blocks), type), Reading(AnswersOf(messages), type),
                     Reading(One(saying), type), calls, last)
  <1>1. /\ ToolsSettled(One(blocks), calls) /\ ToolsSettled(AnswersOf(messages), calls)
        /\ messages \in Seq(Messages)
        /\ OrderSound(Reading(One(blocks), type), Reading(AnswersOf(messages), type),
                      Reading(One(saying), type), calls, last)
    BY DEF TurnSound
  <1>2. Written(AnswersOf(messages))
    BY <1>1, AnswersWritten
  <1>3. Definite(Reading(One(blocks), type))
    BY <1>1, WrittenIsRead
  <1>4. Definite(Reading(AnswersOf(messages), type))
    BY <1>1, <1>2, WrittenIsRead
  <1>5. Definite(Reading(One(saying), type))
    BY PartsRead
  <1>6. \A reading : Definite(reading) => Read(reading) \subseteq Nat \X Nat
    BY DEF Definite, Marking, Read
  <1> QED
    BY <1>1, <1>3, <1>4, <1>5, <1>6 DEF ReadSoFar

LEMMA NothingRead ==
    ASSUME NEW type
    PROVE  Reading(One(<<>>), type) = {} /\ Spoken(One(<<>>)) /\ Read({}) = {} /\ InOrder({})
  <1>1. \A m \in DOMAIN One(<<>>) : DOMAIN One(<<>>)[m] = {}
    BY DEF One
  <1>2. \A s : s \notin Reading(One(<<>>), type)
    BY <1>1, ReadingAt
  <1> QED
    BY <1>1, <1>2 DEF Spoken, Read, InOrder

(* The calls of a message are asked for after all that was said before. *)
CalledAfter(n, ids, count) == {<<count + i, 0>> : i \in {j \in 1..n : ids[j]}}

LEMMA CallsInOrder ==
    ASSUME NEW from \in Nat, NEW n \in Nat, NEW ids \in [1..n -> BOOLEAN], NEW count \in Nat
    PROVE  /\ Definite(CallsRead(from, n, ids, count))
           /\ InOrder(CallsRead(from, n, ids, count))
           /\ Read(CallsRead(from, n, ids, count)) = CalledAfter(n, ids, count)
           /\ \A s \in CallsRead(from, n, ids, count) : s[1][1] = 1 /\ s[1][2] > from
  <1> DEFINE C == CallsRead(from, n, ids, count)
  <1>1. ASSUME NEW s \in C
        PROVE  \E i \in 1..n : /\ ids[i] /\ s = << <<1, from + i, 1>>, <<count + i, 0>> >>
                               /\ s[1] = <<1, from + i, 1>> /\ s[2] = <<count + i, 0>>
    BY DEF CallsRead
  <1>2. C \subseteq Marking
    BY DEF CallsRead, Marking
  <1>3. ASSUME NEW s \in C, NEW t \in C
        PROVE  /\ s[1] = t[1] => s = t
               /\ Earlier(s[1], t[1]) => Sooner(s[2], t[2])
               /\ s[1][1] = 1 /\ s[1][2] > from
    <2>1. PICK i \in 1..n : /\ s = << <<1, from + i, 1>>, <<count + i, 0>> >>
                            /\ s[1] = <<1, from + i, 1>> /\ s[2] = <<count + i, 0>>
      BY <1>1
    <2>2. PICK j \in 1..n : /\ t = << <<1, from + j, 1>>, <<count + j, 0>> >>
                            /\ t[1] = <<1, from + j, 1>> /\ t[2] = <<count + j, 0>>
      BY <1>1
    <2>3. s[1] = t[1] => i = j
      BY <2>1, <2>2
    <2>4. Earlier(s[1], t[1]) => i < j
      BY <2>1, <2>2 DEF Earlier
    <2>5. i < j => Sooner(s[2], t[2])
      BY <2>1, <2>2 DEF Sooner
    <2>6. s[1][1] = 1 /\ s[1][2] > from
      BY <2>1
    <2> QED
      BY <2>1, <2>2, <2>3, <2>4, <2>5, <2>6
  <1>4. Read(C) = CalledAfter(n, ids, count)
    <2>1. ASSUME NEW x \in Read(C)
          PROVE  x \in CalledAfter(n, ids, count)
      <3>1. PICK s \in C : x = s[2]
        BY DEF Read
      <3> QED
        BY <1>1, <3>1 DEF CalledAfter
    <2>2. ASSUME NEW x \in CalledAfter(n, ids, count)
          PROVE  x \in Read(C)
      <3>1. PICK i \in 1..n : ids[i] /\ x = <<count + i, 0>>
        BY DEF CalledAfter
      <3>2. << <<1, from + i, 1>>, <<count + i, 0>> >> \in C
        BY <3>1 DEF CallsRead
      <3> QED
        BY <3>1, <3>2 DEF Read
    <2> QED
      BY <2>1, <2>2
  <1> QED
    BY <1>2, <1>3, <1>4 DEF Definite, InOrder

LEMMA EndingInOrder ==
    ASSUME NEW q \in Seq(Parts), NEW n \in Nat, NEW ids \in [1..n -> BOOLEAN],
           NEW count \in Nat, NEW host \in Nat, NEW type \in TextLike,
           InOrder(Reading(One(q), type)), NEW last \in Nat,
           \A x \in Read(Reading(One(q), type)) : Sooner(x, <<count, last>>)
    PROVE  LET more == Reading(One(NormalizeContent(Ending(q, n, ids, count), host)), type)
           IN  /\ InOrder(more)
               /\ Read(more) = Read(Reading(One(q), type)) \union CalledAfter(n, ids, count)
  <1> DEFINE S == Reading(One(q), type)
             C == CallsRead(Len(q), n, ids, count)
             more == Reading(One(NormalizeContent(Ending(q, n, ids, count), host)), type)
  <1>1. more = S \union C
    BY EndingReads
  <1>2. Len(q) \in Nat /\ DOMAIN q = 1..Len(q) /\ Definite(S)
    BY PartsRead, LenProperties
  <1>3. /\ Definite(C) /\ InOrder(C) /\ Read(C) = CalledAfter(n, ids, count)
        /\ \A t \in C : t[1][1] = 1 /\ t[1][2] > Len(q)
    BY <1>2, CallsInOrder
  <1>4. ASSUME NEW s \in S, NEW t \in C
        PROVE  ~Earlier(t[1], s[1]) /\ Sooner(s[2], t[2])
    <2>1. s[1][1] \in DOMAIN One(q) /\ s[1][2] \in DOMAIN One(q)[s[1][1]]
      BY ReadFrom
    <2>2. s[1][1] = 1 /\ s[1][2] \in 1..Len(q)
      BY <1>2, <2>1 DEF One
    <2>3. /\ s[1] \in Nat \X Nat \X Nat /\ t[1] \in Nat \X Nat \X Nat
          /\ s[2] \in Nat \X Nat /\ t[2] \in Nat \X Nat
      BY <1>2, <1>3 DEF Definite, Marking
    <2>4. ~Earlier(t[1], s[1])
      BY <1>2, <1>3, <2>2, <2>3 DEF Earlier
    <2>5. Sooner(s[2], <<count, last>>)
      BY DEF Read
    <2>6. t[2][1] > count
      <3>1. t[2] \in CalledAfter(n, ids, count)
        BY <1>3 DEF Read
      <3> QED
        BY <3>1 DEF CalledAfter
    <2>7. Sooner(s[2], t[2])
      BY <2>3, <2>5, <2>6 DEF Sooner
    <2> QED
      BY <2>4, <2>7
  <1>5. InOrder(S \union C)
    BY <1>3, <1>4, OrderGrows
  <1>6. Read(S \union C) = Read(S) \union Read(C)
    BY DEF Read
  <1> QED
    BY <1>1, <1>3, <1>5, <1>6

(* A message that ends, in order: more is what was said of it and its calls.   *)
LEMMA EndedOrder ==
    ASSUME NEW shown, NEW told, NEW saying, NEW calls, NEW last \in Nat,
           ReadSoFar(shown, told, saying, calls, last),
           \A e \in DOMAIN calls : calls[e].state = "ended",
           NEW later, NEW n, NEW ids, AskedMore(calls, later, n, ids),
           NEW more, Read(more) = Read(saying) \union CalledAfter(n, ids, Len(calls))
    PROVE  /\ \A x \in Read(told), y \in Read(more) : Sooner(x, y)
           /\ \A new : InOrder(new) /\ Read(new) = Read(told) \union Read(more)
                        => OrderSound(shown, new, {}, later, last)
  <1> DEFINE c == Len(calls)
             called == CalledAfter(n, ids, c)
  <1>1. n \in Nat /\ c \in Nat /\ Len(later) = c + n /\ DOMAIN later = 1..(c + n)
    BY DEF AskedMore
  <1>2. Asked(calls) = {}
    BY DEF Asked
  <1>3. /\ InOrder(shown) /\ InOrder(told) /\ InOrder(saying)
        /\ Read(shown) = Read(told) \union Read(saying)
        /\ \A x \in Read(told) \union Read(saying) : Sooner(x, <<c, last + 1>>)
        /\ \A x \in Read(told), y \in Read(saying) : Sooner(x, y)
        /\ Read(shown) \subseteq Nat \X Nat /\ Read(told) \subseteq Nat \X Nat
        /\ Read(saying) \subseteq Nat \X Nat
    BY <1>2 DEF ReadSoFar, OrderSound
  <1>4. ASSUME NEW x \in called
        PROVE  \E i \in 1..n : x = <<c + i, 0>> /\ x[1] = c + i /\ x[2] = 0
    BY DEF CalledAfter
  <1> HIDE DEF called, c
  <1>5. ASSUME NEW x \in Read(told) \union Read(saying)
        PROVE  x \in Nat \X Nat /\ x[1] <= c
    <2>1. Sooner(x, <<c, last + 1>>) /\ x \in Nat \X Nat
      BY <1>3
    <2> QED
      BY <1>1, <2>1 DEF Sooner
  <1>6. ASSUME NEW x \in Read(told), NEW y \in called
        PROVE  Sooner(x, y)
    BY <1>1, <1>4, <1>5 DEF Sooner
  <1>7. \A x \in Read(told), y \in Read(more) : Sooner(x, y)
    BY <1>3, <1>6 DEF called, c
  <1>8. Read({}) = {} /\ InOrder({})
    BY DEF Read, InOrder
  <1>9. ASSUME NEW e \in Asked(later)
        PROVE  \E i \in 1..n : e = c + i
    <2>1. e \in DOMAIN later /\ later[e].state = "asked"
      BY DEF Asked
    <2>2. e \notin DOMAIN calls
      BY <2>1 DEF MoreCalls, AskedMore
    <2> QED
      BY <2>1, <2>2 DEF AskedMore, c
  <1>10. \A i \in 1..n : c + i \in Asked(later)
    BY DEF Asked, AskedMore, c
  <1>11. Read(shown) = (Read(told) \union Read(more)) \ {<<e, 0>> : e \in Asked(later)}
    <2>1. ASSUME NEW x \in Read(shown)
          PROVE  /\ x \in Read(told) \union Read(more)
                 /\ x \notin {<<e, 0>> : e \in Asked(later)}
      <3>1. x \in Read(told) \union Read(saying)
        BY <1>3
      <3>2. \A e \in Asked(later) : x # <<e, 0>>
        BY <1>1, <1>5, <1>9, <3>1
      <3> QED
        BY <3>1, <3>2
    <2>2. ASSUME NEW x \in Read(told) \union Read(more),
                 x \notin {<<e, 0>> : e \in Asked(later)}
          PROVE  x \in Read(shown)
      <3>1. x \notin called
        BY <1>4, <1>10, <2>2
      <3> QED
        BY <1>3, <3>1 DEF called, c
    <2> QED
      BY <2>1, <2>2
  <1>12. ASSUME NEW x \in Read(told) \union Read(more)
         PROVE  Sooner(x, <<c + n, last + 1>>)
    <2>1. CASE x \in called
      BY <1>1, <1>4, <2>1 DEF Sooner
    <2>2. CASE x \in Read(told) \union Read(saying)
      <3>1. Sooner(x, <<c, last + 1>>)
        BY <1>3, <2>2
      <3> QED
        BY <1>1, <1>5, <2>2, <3>1 DEF Sooner
    <2> QED
      BY <2>1, <2>2 DEF called, c
  <1>13. ASSUME NEW x \in Read(shown), NEW e \in Asked(later)
         PROVE  Sooner(x, <<e, 0>>)
    <2>1. x[1] \in Nat /\ x[1] <= c
      BY <1>3, <1>5
    <2>2. PICK i \in 1..n : e = c + i
      BY <1>9
    <2> QED
      BY <1>1, <2>1, <2>2 DEF Sooner
  <1>14. ASSUME NEW new, InOrder(new), Read(new) = Read(told) \union Read(more)
         PROVE  OrderSound(shown, new, {}, later, last)
    BY <1>1, <1>3, <1>8, <1>11, <1>12, <1>13, <1>14 DEF OrderSound
  <1> QED
    BY <1>7, <1>14

LEMMA ResultsLonger ==
    ASSUME NEW view, NEW later, NEW m, NEW offset, NEW blocks,
           Longer(view, later, m, offset, blocks), NEW calls,
           ResultsSound(view, calls),
           \A j \in DOMAIN blocks : blocks[j].id[2] # "result" /\ blocks[j].type # "tool_result"
    PROVE  ResultsSound(later, calls)
  <1> SUFFICES ASSUME NEW k \in DOMAIN later, NEW i \in DOMAIN later[k]
               PROVE  ResultSound(later[k][i], calls)
    BY DEF ResultsSound
  <1>1. CASE k \in DOMAIN view /\ i \in DOMAIN view[k] /\ later[k][i] = view[k][i]
    BY <1>1 DEF ResultsSound
  <1>2. CASE k = m /\ \E j \in DOMAIN blocks : i = offset + j /\ later[k][i] = blocks[j]
    BY <1>2 DEF ResultSound
  <1> QED
    BY <1>1, <1>2, LongerBlocks

LEMMA ResultsLater ==
    ASSUME NEW view, NEW calls, NEW later, MoreCalls(calls, later),
           ToolsSettled(view, calls), ResultsSound(view, calls)
    PROVE  ResultsSound(view, later)
  <1> SUFFICES ASSUME NEW k \in DOMAIN view, NEW i \in DOMAIN view[k]
               PROVE  ResultSound(view[k][i], later)
    BY DEF ResultsSound
  <1> DEFINE b == view[k][i]
  <1>1. ResultSound(b, calls)
    BY DEF ResultsSound
  <1>2. b.type = "tool_result" /\ b.tool[1] = "id" => b.tool[2] \in DOMAIN calls
    <2>1. "tool_result" \notin TextLike
      BY DEF TextLike
    <2> QED
      BY <2>1 DEF ToolsSettled, Settled
  <1>3. b.type = "tool_result" /\ b.tool[1] = "id" => later[b.tool[2]] = calls[b.tool[2]]
    BY <1>2 DEF MoreCalls
  <1> HIDE DEF b
  <1> QED
    BY <1>1, <1>3 DEF ResultSound, b

(* The message ends: what was said of it goes to the history, with its calls. *)
LEMMA TurnEnded ==
    ASSUME NEW shown, Written(One(shown)), NEW messages, NEW saying \in Seq(Parts),
           NEW calls, NEW last \in Nat, TurnSound(shown, messages, saying, calls, last),
           \A e \in DOMAIN calls : calls[e].state = "ended", NEW host \in Nat,
           NEW later, NEW n, NEW ids \in [1..n -> BOOLEAN], AskedMore(calls, later, n, ids),
           NEW ended, ended = NormalizeMerging(messages, AssistantEntry(
                                Ending(saying, n, ids, Len(calls))), host)
    PROVE  TurnSound(shown, ended, <<>>, later, last) /\ CallsListed(ended, later)
  <1> DEFINE c == Len(calls)
             q == Ending(saying, n, ids, c)
             blocks == NormalizeContent(q, host)
             old == AnswersOf(messages)
             new == AnswersOf(ended)
  <1>1. /\ n \in Nat /\ c \in Nat /\ MoreCalls(calls, later)
        /\ DOMAIN calls \subseteq Nat /\ DOMAIN later \subseteq Nat
    BY DEF AskedMore
  <1>2. /\ Spoken(One(shown)) /\ Spoken(old) /\ Spoken(One(saying))
        /\ ToolsSettled(One(shown), calls) /\ ToolsSettled(old, calls)
        /\ messages \in Seq(Messages) /\ ResultsSound(old, calls)
    BY DEF TurnSound
  <1>3. q \in Seq(AnyParts)
    BY <1>1, EndingTyped
  <1>4. /\ blocks \in Seq(HistoryBlocks)
        /\ Len(blocks) \in Nat /\ DOMAIN blocks = 1..Len(blocks)
    BY <1>3, ContentTyped
  <1>5. EndingSound(blocks, n, ids, c, later)
    <2>1. NewCalls(later, n, ids, c)
      BY DEF AskedMore, NewCalls
    <2> QED
      BY <1>1, <1>2, <2>1, EndingSettled
  <1>6. /\ ended \in Seq(Messages) /\ HasAssistant(ended)
        /\ \E m \in DOMAIN new, offset \in Nat :
             /\ Longer(old, new, m, offset, blocks)
             /\ Last(ended).blocks = new[m]
    BY <1>2, <1>3, AssistantAdded
  <1>7. PICK m \in DOMAIN new, offset \in Nat :
             /\ Longer(old, new, m, offset, blocks)
             /\ Last(ended).blocks = new[m]
    BY <1>6
  <1>8. /\ Written(One(blocks)) /\ ToolsSettled(One(blocks), later)
    <2> HIDE DEF blocks
    <2>1. \A i \in DOMAIN blocks : blocks[i] \in HistoryBlocks
      BY <1>4, ElementOfSeq
    <2>2. \A i \in DOMAIN blocks : blocks[i].content \in Pieces
      BY <2>1 DEF HistoryBlocks
    <2> QED
      BY <1>4, <1>5, <2>2, OneWritten DEF EndingSound
  <1>9. ASSUME NEW type \in TextLike
        PROVE  OrderSound(Reading(One(shown), type), Reading(new, type), {}, later, last)
    <2> DEFINE sr == Reading(One(shown), type)
               tr == Reading(old, type)
               pr == Reading(One(saying), type)
               more == Reading(One(blocks), type)
    <2>1. ReadSoFar(sr, tr, pr, calls, last)
      BY <1>1, TurnRead
    <2>2. /\ InOrder(pr) /\ InOrder(tr) /\ Definite(tr)
          /\ \A x \in Read(pr) : Sooner(x, <<c, last + 1>>)
      BY <2>1 DEF ReadSoFar, OrderSound
    <2>3. InOrder(more) /\ Read(more) = Read(pr) \union CalledAfter(n, ids, c)
      <3>1. last + 1 \in Nat
        OBVIOUS
      <3> QED
        BY <1>1, <2>2, <3>1, EndingInOrder
    <2>4. Definite(more)
      BY <1>1, <1>8, WrittenIsRead
    <2> HIDE DEF sr, tr, pr, more
    <2>5. /\ \A x \in Read(tr), y \in Read(more) : Sooner(x, y)
          /\ \A r : InOrder(r) /\ Read(r) = Read(tr) \union Read(more)
                      => OrderSound(sr, r, {}, later, last)
      BY <2>1, <2>3, EndedOrder
    <2>6. InOrder(Reading(new, type)) /\ Read(Reading(new, type)) = Read(tr) \union Read(more)
      <3> HIDE DEF blocks, old, new
      <3> QED
        BY <1>7, <2>2, <2>3, <2>4, <2>5, LongerInOrder DEF tr, more
    <2> QED
      BY <2>5, <2>6 DEF sr
  <1> HIDE DEF blocks, old, new
  <1>10. Spoken(new) /\ ToolsSettled(new, later) /\ ResultsSound(new, later)
    <2>1. Spoken(new)
      BY <1>2, <1>5, <1>7, LongerSpoken DEF EndingSound
    <2>2. ToolsSettled(old, later) /\ ResultsSound(old, later)
      BY <1>1, <1>2, SettledLater, ResultsLater
    <2>3. ToolsSettled(new, later)
      BY <1>5, <1>7, <2>2, LongerSettled DEF EndingSound
    <2> QED
      BY <1>5, <1>7, <2>1, <2>2, <2>3, ResultsLonger DEF EndingSound
  <1>11. ToolsSettled(One(shown), later)
    BY <1>1, <1>2, SettledLater
  <1>12. TurnSound(shown, ended, <<>>, later, last)
    <2>1. \A type \in TextLike : Reading(One(<<>>), type) = {} /\ Spoken(One(<<>>))
      BY NothingRead
    <2>2. Spoken(One(<<>>))
      BY <2>1 DEF TextLike
    <2> QED
      BY <1>2, <1>6, <1>9, <1>10, <1>11, <2>1, <2>2 DEF TurnSound, new
  <1>13. ASSUME NEW e \in DOMAIN later, later[e].tool # None, later[e].state # "ended"
         PROVE  CallBlocks(Last(ended).blocks, later[e].tool) # {}
    <2>1. e \notin DOMAIN calls
      BY <1>1, <1>13 DEF MoreCalls
    <2>2. PICK i \in 1..n : e = c + i
      BY <2>1 DEF AskedMore
    <2>3. ids[i] /\ later[e].tool = ToolId(c + i)
      BY <1>13, <2>2 DEF AskedMore
    <2>4. PICK j \in CallBlocks(blocks, ToolId(c + i)) : TRUE
      BY <1>5, <2>3 DEF EndingSound
    <2>5. j \in DOMAIN blocks /\ blocks[j].type = "tool_call" /\ blocks[j].tool = ToolId(c + i)
      BY <2>4 DEF CallBlocks
    <2>6. offset + j \in DOMAIN new[m] /\ new[m][offset + j] = blocks[j]
      <3>1. offset \in Nat /\ Len(blocks) \in Nat /\ j \in 1..Len(blocks)
        BY <1>4, <2>5
      <3>2. offset + j \in 1..(offset + Len(blocks))
        BY <3>1
      <3> QED
        BY <1>7, <3>1, <3>2 DEF Longer
    <2>7. offset + j \in CallBlocks(new[m], ToolId(c + i))
      BY <2>5, <2>6 DEF CallBlocks
    <2> QED
      BY <1>7, <2>3, <2>7
  <1> QED
    BY <1>6, <1>12, <1>13 DEF CallsListed

LEMMA MessageEndReads ==
    ASSUME LiveInv, ReadInv, NEW n \in 0..MaxTools, NEW ids \in [1..n -> BOOLEAN],
           MessageEnd(n, ids)
    PROVE  ReadInv'
  <1> DEFINE q == Ending(parts, n, ids, Len(tools))
             messages == NormalizeMessages(entries)
             ended == NormalizeMerging(messages, AssistantEntry(q), Len(entries))
  <1>1. AskedMore(tools, tools', n, ids) /\ entries' = Append(entries, AssistantEntry(q))
    BY CallsAsked
  <1>2. /\ phase = "saying" /\ phase' = "tools" /\ parts' = <<>>
        /\ deltas' = deltas /\ live' = live /\ seen' = seen
    BY DEF MessageEnd, browser
  <1>3. /\ parts \in Seq(Parts) /\ entries \in Seq(Entries) /\ Len(entries) \in Nat
        /\ \A e \in DOMAIN tools : tools[e].state = "ended"
        /\ live.id > 0 /\ (~live.open => seen = NoMessage)
        /\ TurnSound(live.blocks, messages, parts, tools, deltas)
    BY <1>2, LenProperties DEF ReadInv
  <1>4. deltas \in Nat /\ Written(One(live.blocks))
    <2>1. live \in Projections
      BY InvariantTyped
    <2> QED
      BY <2>1, LiveWritten, LiveTurnAssumption DEF LiveInv, TypeOK
  <1>5. n \in Nat /\ Len(tools) \in Nat
    BY <1>1 DEF AskedMore
  <1>6. q \in Seq(AnyParts)
    BY <1>3, <1>5, EndingTyped
  <1>7. NormalizeMessages(entries') = ended
    BY <1>1, <1>3, NormalizeMore
  <1>8. TurnSound(live.blocks, ended, <<>>, tools', deltas) /\ CallsListed(ended, tools')
    BY <1>1, <1>3, <1>4, TurnEnded
  <1>9. entries' \in Seq(Entries) /\ <<>> \in Seq(Parts)
    <2>1. AssistantEntry(q) \in Entries
      BY <1>6 DEF AssistantEntry, Entries, AnyParts
    <2> QED
      BY <1>1, <1>3, <2>1
  <1> HIDE DEF q, messages, ended
  <1> QED
    BY <1>2, <1>3, <1>7, <1>8, <1>9 DEF ReadInv, HistoryShowsTheTurn

-------------------------------------------------------------------------------
(* A message begins *)

(* A user's message, or a compaction, gives nothing to read. *)
LEMMA NoAnswerAdded ==
    ASSUME NEW messages \in Seq(Messages), NEW entry \in {UserEntry, CompactionEntry},
           NEW index \in Nat
    PROVE  LET later == NormalizeMerging(messages, entry, index)
           IN  later \in Seq(Messages) /\ AnswersOf(later) = AnswersOf(messages)
  <1> DEFINE later == NormalizeMerging(messages, entry, index)
  <1>1. \E message \in Messages : later = Append(messages, message) /\ message.role # "assistant"
    <2>1. CASE entry = CompactionEntry
      <3>1. later = Append(messages, Shown("system", index, <<>>))
        BY <2>1 DEF NormalizeMerging, CompactionEntry
      <3>2. Shown("system", index, <<>>) \in Messages
        BY DEF Shown, Messages
      <3> QED
        BY <3>1, <3>2 DEF Shown
    <2>2. CASE entry = UserEntry
      <3> DEFINE q == <<Part("text", <<>>)>>
                 blocks == NormalizeContent(q, index)
      <3>1. entry.role = "user" /\ entry.parts = q
        BY <2>2 DEF UserEntry
      <3>2. later = Append(messages, Shown("user", index, blocks))
        BY <3>1 DEF NormalizeMerging
      <3>3. Part("text", <<>>) \in AnyParts
        <4>1. "text" \in TextLike /\ <<>> \in Pieces
          BY DEF TextLike, Pieces
        <4> QED
          BY <4>1 DEF Part, Parts, AnyParts
      <3>4. q \in Seq(AnyParts)
        <4>1. \A x \in AnyParts : <<x>> \in Seq(AnyParts)
          OBVIOUS
        <4> QED
          BY <3>3, <4>1
      <3>5. blocks \in Seq(HistoryBlocks)
        BY <3>4, ContentTyped
      <3> HIDE DEF blocks, q
      <3>6. Shown("user", index, blocks) \in Messages
        BY <3>5 DEF Shown, Messages
      <3> QED
        BY <3>2, <3>6 DEF Shown
    <2> QED
      BY <2>1, <2>2
  <1>2. PICK message \in Messages : later = Append(messages, message) /\ message.role # "assistant"
    BY <1>1
  <1> HIDE DEF later
  <1>3. /\ later \in Seq(Messages)
        /\ DOMAIN later = DOMAIN messages \union {Len(messages) + 1}
        /\ later[Len(messages) + 1] = message
        /\ \A m \in DOMAIN messages : later[m] = messages[m]
    BY <1>2, MessageAdded
  <1>4. {m \in DOMAIN later : later[m].role = "assistant"}
          = {m \in DOMAIN messages : messages[m].role = "assistant"}
    BY <1>2, <1>3
  <1>5. AnswersOf(later) = AnswersOf(messages)
    BY <1>3, <1>4 DEF AnswersOf
  <1> QED
    BY <1>3, <1>5 DEF later

LEMMA EntriesTyped ==
    {UserEntry, CompactionEntry} \subseteq Entries
  <1>1. Part("text", <<>>) \in Parts \union CallParts
    <2>1. "text" \in TextLike /\ <<>> \in Pieces
      BY DEF TextLike, Pieces
    <2> QED
      BY <2>1 DEF Part, Parts
  <1>2. \A x \in Parts \union CallParts : <<x>> \in Seq(Parts \union CallParts)
    OBVIOUS
  <1>3. <<Part("text", <<>>)>> \in Seq(Parts \union CallParts)
    BY <1>1, <1>2
  <1> QED
    BY <1>3 DEF UserEntry, CompactionEntry, Entries

(* A turn of which nothing was made *)
LEMMA TurnBegun ==
    ASSUME NEW messages \in Seq(Messages), NEW last, AnswersOf(messages) = <<>>
    PROVE  TurnSound(<<>>, messages, <<>>, <<>>, last)
  <1>1. \A type \in TextLike :
            Reading(One(<<>>), type) = {} /\ Spoken(One(<<>>)) /\ Read({}) = {} /\ InOrder({})
    BY NothingRead
  <1>2. Spoken(One(<<>>)) /\ Read({}) = {} /\ InOrder({})
    BY <1>1 DEF TextLike
  <1>3. /\ Spoken(<<>>) /\ ToolsSettled(<<>>, <<>>) /\ ResultsSound(<<>>, <<>>)
        /\ ToolsSettled(One(<<>>), <<>>)
    BY DEF Spoken, ToolsSettled, ResultsSound, One
  <1>4. \A type : Reading(<<>>, type) = {}
    BY DEF Reading
  <1>5. Asked(<<>>) = {}
    BY DEF Asked
  <1>6. OrderSound({}, {}, {}, <<>>, last)
    BY <1>2, <1>5 DEF OrderSound
  <1> QED
    BY <1>1, <1>2, <1>3, <1>4, <1>6 DEF TurnSound

LEMMA MessageStartReads ==
    ASSUME LiveInv, ReadInv, MessageStart
    PROVE  ReadInv'
  <1>1. /\ phase' = "saying" /\ parts' = <<>> /\ deltas' = deltas
        /\ live' = [live EXCEPT !.key = NoKeys]
    BY DEF MessageStart
  <1>2. live \in Projections
    BY InvariantTyped
  <1>3. /\ live'.blocks = live.blocks /\ live'.id = live.id /\ live'.open = live.open
        /\ \A type \in TextLike : live'.key[type] = None
    BY <1>1, <1>2 DEF Projections, NoKeys
  <1>4. entries \in Seq(Entries) /\ live.id > 0 /\ <<>> \in Seq(Parts)
    BY DEF ReadInv
  <1> SUFFICES /\ entries' \in Seq(Entries)
               /\ \A e \in DOMAIN tools' : tools'[e].state = "ended"
               /\ ~live.open => seen' = NoMessage
               /\ TurnSound(live.blocks, NormalizeMessages(entries'), <<>>, tools', deltas)
    BY <1>1, <1>3, <1>4 DEF ReadInv, HistoryShowsTheTurn
  <1>5. CASE /\ phase = "idle" /\ tools' = <<>>
             /\ \E first \in {UserEntry} \union (IF turn = 0 THEN {} ELSE {CompactionEntry}) :
                    entries' = <<first>>
             /\ seen' = NoMessage
    <2>1. PICK first \in {UserEntry, CompactionEntry} : entries' = <<first>>
      BY <1>5
    <2>2. live.blocks = <<>>
      BY <1>5 DEF LiveInv, ProjectionSound, NewLive
    <2>3. NormalizeMessages(<<first>>) = NormalizeMerging(<<>>, first, 0)
      <3>1. /\ <<>> \in Seq(Entries) /\ Append(<<>>, first) = <<first>> /\ Len(<<>>) = 0
        OBVIOUS
      <3> QED
        BY <3>1, NormalizeMore, NormalizeNone
    <2>4. /\ NormalizeMessages(<<first>>) \in Seq(Messages)
          /\ AnswersOf(NormalizeMessages(<<first>>)) = AnswersOf(<<>>)
      <3> DEFINE none == <<>>
      <3>1. none \in Seq(Messages) /\ 0 \in Nat
        OBVIOUS
      <3> HIDE DEF none
      <3>2. /\ NormalizeMerging(none, first, 0) \in Seq(Messages)
            /\ AnswersOf(NormalizeMerging(none, first, 0)) = AnswersOf(none)
        BY <3>1, NoAnswerAdded
      <3> QED
        BY <2>3, <3>2 DEF none
    <2>5. AnswersOf(<<>>) = <<>>
      BY DEF AnswersOf
    <2>6. TurnSound(<<>>, NormalizeMessages(<<first>>), <<>>, <<>>, deltas)
      BY <2>4, <2>5, TurnBegun
    <2>7. <<first>> \in Seq(Entries)
      <3>1. \A x \in Entries : <<x>> \in Seq(Entries)
        OBVIOUS
      <3> QED
        BY <3>1, EntriesTyped
    <2> QED
      BY <1>5, <2>1, <2>2, <2>6, <2>7
  <1>6. CASE /\ phase = "tools" /\ \A i \in DOMAIN tools : tools[i].state = "ended"
             /\ \E between \in {<<>>, <<UserEntry>>} : entries' = entries \o between
             /\ UNCHANGED <<tools, seen>>
    <2>1. /\ parts = <<>> /\ (~live.open => seen = NoMessage)
          /\ TurnSound(live.blocks, NormalizeMessages(entries), <<>>, tools, deltas)
      BY <1>6 DEF ReadInv
    <2>2. NormalizeMessages(entries) \in Seq(Messages)
      BY <2>1 DEF TurnSound
    <2>3. entries' = entries \/ entries' = Append(entries, UserEntry)
      <3>1. PICK between \in {<<>>, <<UserEntry>>} : entries' = entries \o between
        BY <1>6
      <3>2. entries \o <<>> = entries
        BY <1>4
      <3>3. \A x : entries \o <<x>> = Append(entries, x)
        BY <1>4
      <3> QED
        BY <3>1, <3>2, <3>3
    <2>4. /\ entries' \in Seq(Entries) /\ NormalizeMessages(entries') \in Seq(Messages)
          /\ AnswersOf(NormalizeMessages(entries')) = AnswersOf(NormalizeMessages(entries))
      <3>1. CASE entries' = entries
        BY <1>4, <2>2, <3>1
      <3>2. CASE entries' = Append(entries, UserEntry)
        <4>1. NormalizeMessages(entries')
                = NormalizeMerging(NormalizeMessages(entries), UserEntry, Len(entries))
          BY <1>4, <3>2, NormalizeMore
        <4>2. Len(entries) \in Nat
          BY <1>4, LenProperties
        <4>3. UserEntry \in Entries
          BY EntriesTyped
        <4> QED
          BY <1>4, <2>2, <3>2, <4>1, <4>2, <4>3, NoAnswerAdded
      <3> QED
        BY <2>3, <3>1, <3>2
    <2>5. TurnSound(live.blocks, NormalizeMessages(entries'), <<>>, tools, deltas)
      BY <2>1, <2>4 DEF TurnSound
    <2> QED
      BY <1>6, <2>1, <2>4, <2>5
  <1> QED
    BY <1>5, <1>6 DEF MessageStart

-------------------------------------------------------------------------------
(* A piece is said *)

(* `new` has the piece x more, at the end of the last block with a text of the *)
(* type, the k-th, or in a block of its own at the end.                        *)
TextGrows(old, new, k, type, x) ==
    /\ DOMAIN old \subseteq Nat /\ k \in Nat
    /\ DOMAIN new = DOMAIN old \union {k}
    /\ \A i \in DOMAIN old \ {k} : new[i] = old[i]
    /\ new[k].type = type
    /\ new[k].content = IF k \in DOMAIN old THEN Append(old[k].content, x) ELSE <<x>>
    /\ k \in DOMAIN old => old[k].type = type
    /\ \A j \in DOMAIN old : j > k => Marks(old[j], type) = <<>>

MarksGrow(old, new, k, type, x, n) ==
    /\ Marks(new[k], type) \in Seq(Nat \X (Nat \ {0}))
    /\ DOMAIN Marks(new[k], type) = 1..(n + 1) /\ Marks(new[k], type)[n + 1] = x
    /\ k \notin DOMAIN old => n = 0
    /\ k \in DOMAIN old =>
         /\ DOMAIN Marks(old[k], type) = 1..n
         /\ \A i \in 1..n : Marks(new[k], type)[i] = Marks(old[k], type)[i]

LEMMA GrownMarks ==
    ASSUME NEW old, NEW new, NEW k, NEW type \in TextLike, NEW x \in Nat \X (Nat \ {0}),
           TextGrows(old, new, k, type, x), Spoken(One(old))
    PROVE  \E n \in Nat : MarksGrow(old, new, k, type, x, n)
  <1>0. "tool_call" \notin TextLike
    BY DEF TextLike
  <1>1. Marks(new[k], type) = new[k].content
    BY <1>0 DEF Marks, TextGrows
  <1>2. CASE k \notin DOMAIN old
    <2>1. Marks(new[k], type) = <<x>>
      BY <1>1, <1>2 DEF TextGrows
    <2>2. /\ <<x>> \in Seq(Nat \X (Nat \ {0})) /\ DOMAIN <<x>> = 1..(0 + 1) /\ <<x>>[0 + 1] = x
          /\ 0 \in Nat
      <3>1. \A S : \A y \in S : <<y>> \in Seq(S)
        OBVIOUS
      <3>2. DOMAIN <<x>> = 1..1 /\ <<x>>[1] = x /\ 0 + 1 = 1
        OBVIOUS
      <3> QED
        BY <3>1, <3>2
    <2> QED
      BY <1>2, <2>1, <2>2 DEF MarksGrow
  <1>3. CASE k \in DOMAIN old
    <2> DEFINE c == old[k].content
    <2>1. old[k].type = type
      BY <1>3 DEF TextGrows
    <2>2. c \in Seq(Nat \X (Nat \ {0}))
      BY <1>3, <2>1 DEF Spoken, One
    <2>3. Marks(old[k], type) = c
      BY <1>0, <2>1 DEF Marks
    <2>4. Marks(new[k], type) = Append(c, x)
      BY <1>1, <1>3 DEF TextGrows
    <2> HIDE DEF c
    <2>5. /\ Len(c) \in Nat /\ DOMAIN c = 1..Len(c)
          /\ Append(c, x) \in Seq(Nat \X (Nat \ {0}))
          /\ Append(c, x)[Len(c) + 1] = x /\ \A i \in 1..Len(c) : Append(c, x)[i] = c[i]
          /\ Len(Append(c, x)) = Len(c) + 1
      BY <2>2, LenProperties, AppendProperties
    <2>6. DOMAIN Append(c, x) = 1..(Len(c) + 1)
      BY <2>5, LenProperties
    <2> QED
      BY <1>3, <2>3, <2>4, <2>5, <2>6 DEF MarksGrow
  <1> QED
    BY <1>2, <1>3

ReadsOn(reading, other, x) ==
    /\ Read(other) = Read(reading) \union {x}
    /\ InOrder(reading) /\ Definite(reading) /\ (\A y \in Read(reading) : Sooner(y, x))
         => InOrder(other)

AlikeBut(old, new, type) ==
    \A other \in TextLike \ {type} : Reading(One(new), other) = Reading(One(old), other)

LEMMA GrownReading ==
    ASSUME NEW old, NEW new, NEW k, NEW type \in TextLike, NEW x \in Nat \X (Nat \ {0}),
           TextGrows(old, new, k, type, x), Spoken(One(old))
    PROVE  ReadsOn(Reading(One(old), type), Reading(One(new), type), x) /\ AlikeBut(old, new, type)
  <1> DEFINE S == Reading(One(old), type)
             T == Reading(One(new), type)
  <1>0. "tool_call" \notin TextLike
    BY DEF TextLike
  <1>a. PICK n \in Nat : MarksGrow(old, new, k, type, x, n)
    BY GrownMarks
  <1>1. /\ DOMAIN Marks(new[k], type) = 1..(n + 1) /\ Marks(new[k], type)[n + 1] = x
        /\ k \notin DOMAIN old => n = 0
        /\ k \in DOMAIN old =>
             /\ DOMAIN Marks(old[k], type) = 1..n
             /\ \A i \in 1..n : Marks(new[k], type)[i] = Marks(old[k], type)[i]
    BY <1>a DEF MarksGrow
  <1> DEFINE u == << <<1, k, n + 1>>, x >>
  <1>2. \A view, kind, s :
          s \in Reading(One(view), kind) <=>
            \E i \in DOMAIN view : \E j \in DOMAIN Marks(view[i], kind) :
                s = << <<1, i, j>>, Marks(view[i], kind)[j] >>
    BY ReadingAt DEF One
  <1>3. T = S \union {u}
    <2>1. ASSUME NEW s \in T
          PROVE  s \in S \union {u}
      <3>1. PICK i \in DOMAIN new : \E j \in DOMAIN Marks(new[i], type) :
                   s = << <<1, i, j>>, Marks(new[i], type)[j] >>
        BY <1>2
      <3>2. PICK j \in DOMAIN Marks(new[i], type) : s = << <<1, i, j>>, Marks(new[i], type)[j] >>
        BY <3>1
      <3>3. CASE i # k
        <4>1. i \in DOMAIN old /\ new[i] = old[i]
          BY <3>3 DEF TextGrows
        <4> QED
          BY <1>2, <3>2, <4>1
      <3>4. CASE i = k /\ j = n + 1
        BY <1>1, <3>2, <3>4
      <3>5. CASE i = k /\ j # n + 1
        <4>1. j \in 1..n /\ n # 0
          BY <1>1, <3>5
        <4>2. k \in DOMAIN old /\ j \in DOMAIN Marks(old[k], type)
              /\ Marks(new[k], type)[j] = Marks(old[k], type)[j]
          BY <1>1, <4>1
        <4> QED
          BY <1>2, <3>2, <3>5, <4>2
      <3> QED
        BY <3>3, <3>4, <3>5
    <2>2. ASSUME NEW s \in S
          PROVE  s \in T
      <3>1. PICK i \in DOMAIN old : \E j \in DOMAIN Marks(old[i], type) :
                   s = << <<1, i, j>>, Marks(old[i], type)[j] >>
        BY <1>2
      <3>2. PICK j \in DOMAIN Marks(old[i], type) : s = << <<1, i, j>>, Marks(old[i], type)[j] >>
        BY <3>1
      <3>3. i \in DOMAIN new
        BY DEF TextGrows
      <3>4. CASE i # k
        <4>1. new[i] = old[i]
          BY <3>4 DEF TextGrows
        <4> QED
          BY <1>2, <3>2, <3>3, <4>1
      <3>5. CASE i = k
        <4>1. j \in 1..n /\ Marks(new[k], type)[j] = Marks(old[k], type)[j]
          BY <1>1, <3>2, <3>5
        <4>2. j \in DOMAIN Marks(new[k], type)
          BY <1>1, <4>1
        <4> QED
          BY <1>2, <3>2, <3>3, <3>5, <4>1, <4>2
      <3> QED
        BY <3>4, <3>5
    <2>3. u \in T
      <3>1. k \in DOMAIN new /\ n + 1 \in DOMAIN Marks(new[k], type)
        BY <1>1 DEF TextGrows
      <3> QED
        BY <1>1, <1>2, <3>1
    <2> QED
      BY <2>1, <2>2, <2>3
  <1>4. ASSUME NEW s \in S
        PROVE  s[1][1] = 1 /\ s[1][2] \in Nat /\ s[1][2] <= k /\ (s[1][2] = k => s[1][3] \in 1..n)
    <2>1. PICK i \in DOMAIN old : \E j \in DOMAIN Marks(old[i], type) :
                 s = << <<1, i, j>>, Marks(old[i], type)[j] >>
      BY <1>2
    <2>2. PICK j \in DOMAIN Marks(old[i], type) : s = << <<1, i, j>>, Marks(old[i], type)[j] >>
      BY <2>1
    <2>3. i \in Nat /\ k \in Nat /\ ~(i > k)
      <3>1. DOMAIN <<>> = {}
        OBVIOUS
      <3> QED
        BY <2>2, <3>1 DEF TextGrows
    <2>4. i = k => j \in 1..n
      BY <1>1, <2>2
    <2>5. s[1] = <<1, i, j>>
      BY <2>2
    <2> QED
      BY <2>3, <2>4, <2>5
  <1>5. Read(T) = Read(S) \union {x}
    <2>1. u[2] = x
      OBVIOUS
    <2> HIDE DEF S, T, u
    <2> QED
      BY <1>3, <2>1 DEF Read
  <1>6. ASSUME InOrder(S), \A y \in Read(S) : Sooner(y, x), Definite(S)
        PROVE  InOrder(T)
    <2>1. InOrder({u})
      BY <1>1 DEF InOrder, Earlier, TextGrows
    <2>2. ASSUME NEW s \in S
          PROVE  ~Earlier(u[1], s[1]) /\ Sooner(s[2], u[2])
      <3>1. u[1] = <<1, k, n + 1>> /\ u[2] = x /\ k \in Nat
        BY DEF TextGrows
      <3>2. s[1] \in Nat \X Nat \X Nat
        BY <1>6 DEF Definite, Marking
      <3>3. ~Earlier(u[1], s[1])
        BY <1>1, <1>4, <3>1, <3>2 DEF Earlier
      <3>4. Sooner(s[2], u[2])
        BY <1>6, <3>1 DEF Read
      <3> QED
        BY <3>3, <3>4
    <2> HIDE DEF S, T, u
    <2>3. \A s \in S, t \in {u} : ~Earlier(t[1], s[1]) /\ Sooner(s[2], t[2])
      BY <2>2
    <2> QED
      BY <1>3, <1>6, <2>1, <2>3, OrderGrows
  <1>7. ASSUME NEW other \in TextLike \ {type}
        PROVE  Reading(One(new), other) = Reading(One(old), other)
    <2>1. Marks(new[k], other) = <<>> /\ (k \in DOMAIN old => Marks(old[k], other) = <<>>)
      BY <1>0 DEF TextGrows, Marks
    <2>2. \A i \in DOMAIN old \ {k} : i \in DOMAIN new /\ new[i] = old[i]
      BY DEF TextGrows
    <2>3. \A i \in DOMAIN new : i = k \/ i \in DOMAIN old \ {k}
      BY DEF TextGrows
    <2>4. DOMAIN <<>> = {}
      OBVIOUS
    <2>5. \A s : s \in Reading(One(new), other) <=> s \in Reading(One(old), other)
      BY <1>2, <2>1, <2>2, <2>3, <2>4
    <2> QED
      BY <2>5
  <1> QED
    BY <1>5, <1>6, <1>7 DEF AlikeBut, ReadsOn

LEMMA GrownSpoken ==
    ASSUME NEW old, NEW new, NEW k, NEW type \in TextLike, NEW x \in Nat \X (Nat \ {0}),
           TextGrows(old, new, k, type, x), Spoken(One(old))
    PROVE  Spoken(One(new))
  <1>1. PICK n \in Nat : MarksGrow(old, new, k, type, x, n)
    BY GrownMarks
  <1>2. Marks(new[k], type) = new[k].content
    <2>1. "tool_call" \notin TextLike
      BY DEF TextLike
    <2> QED
      BY <2>1 DEF Marks, TextGrows
  <1>3. new[k].content \in Seq(Nat \X (Nat \ {0}))
    BY <1>1, <1>2 DEF MarksGrow
  <1> SUFFICES ASSUME NEW i \in DOMAIN new, new[i].type \in TextLike
               PROVE  new[i].content \in Seq(Nat \X (Nat \ {0}))
    BY DEF Spoken, One
  <1>4. CASE i # k
    <2>1. i \in DOMAIN old /\ new[i] = old[i]
      BY <1>4 DEF TextGrows
    <2> QED
      BY <2>1 DEF Spoken, One
  <1> QED
    BY <1>3, <1>4

LEMMA GrownSettled ==
    ASSUME NEW old, NEW new, NEW k, NEW type \in TextLike, NEW x,
           TextGrows(old, new, k, type, x), NEW calls, ToolsSettled(One(old), calls)
    PROVE  ToolsSettled(One(new), calls)
  <1>0. "tool_call" \notin TextLike /\ "tool_result" \notin TextLike
    BY DEF TextLike
  <1> SUFFICES ASSUME NEW i \in DOMAIN new, new[i].type \notin TextLike, new[i].tool[1] = "id"
               PROVE  Settled(new, new[i], calls)
    BY DEF ToolsSettled, One
  <1>1. i \in DOMAIN old /\ new[i] = old[i]
    BY DEF TextGrows
  <1>2. Settled(old, new[i], calls)
    BY <1>1 DEF ToolsSettled, One
  <1>3. \A j \in DOMAIN old : old[j].type \notin TextLike => j \in DOMAIN new /\ new[j] = old[j]
    BY DEF TextGrows
  <1> QED
    BY <1>0, <1>2, <1>3 DEF Settled, CallBlocks, Results

(* What is said goes on, in the live message and in what the SDK keeps of it. *)
LEMMA TurnGoesOn ==
    ASSUME NEW shown, Written(One(shown)), NEW messages, NEW saying \in Seq(Parts),
           NEW calls, DOMAIN calls \subseteq Nat, Len(calls) \in Nat, NEW last \in Nat,
           \A e \in DOMAIN calls : calls[e].state = "ended",
           TurnSound(shown, messages, saying, calls, last), NEW type \in TextLike,
           NEW k, NEW more, TextGrows(shown, more, k, type, <<Len(calls), last + 1>>),
           NEW l, NEW longer, TextGrows(saying, longer, l, type, <<Len(calls), last + 1>>)
    PROVE  TurnSound(more, messages, longer, calls, last + 1)
  <1> DEFINE x == <<Len(calls), last + 1>>
             view == AnswersOf(messages)
  <1>1. x \in Nat \X (Nat \ {0}) /\ x \in Nat \X Nat
    OBVIOUS
  <1>2. /\ Spoken(One(shown)) /\ Spoken(view) /\ Spoken(One(saying))
        /\ ToolsSettled(One(shown), calls) /\ ToolsSettled(view, calls)
        /\ messages \in Seq(Messages) /\ ResultsSound(view, calls)
    BY DEF TurnSound
  <1>3. Asked(calls) = {} /\ {<<e, 0>> : e \in Asked(calls)} = {}
    BY DEF Asked
  <1>4. Spoken(One(more)) /\ Spoken(One(longer)) /\ ToolsSettled(One(more), calls)
    BY <1>1, <1>2, GrownSpoken, GrownSettled
  <1>5. ASSUME NEW kind \in TextLike
        PROVE  OrderSound(Reading(One(more), kind), Reading(view, kind),
                          Reading(One(longer), kind), calls, last + 1)
    <2> DEFINE sr == Reading(One(shown), kind)
               tr == Reading(view, kind)
               pr == Reading(One(saying), kind)
               sr2 == Reading(One(more), kind)
               pr2 == Reading(One(longer), kind)
    <2>1. ReadSoFar(sr, tr, pr, calls, last)
      BY TurnRead
    <2>2. /\ Definite(sr) /\ Definite(tr) /\ Definite(pr)
          /\ InOrder(sr) /\ InOrder(tr) /\ InOrder(pr)
          /\ Read(sr) = Read(tr) \union Read(pr)
          /\ \A y \in Read(tr) \union Read(pr) : Sooner(y, x)
          /\ \A y \in Read(tr), z \in Read(pr) : Sooner(y, z)
          /\ Read(tr) \subseteq Nat \X Nat /\ Read(pr) \subseteq Nat \X Nat
      BY <1>3, <2>1 DEF ReadSoFar, OrderSound
    <2>3. ASSUME NEW y \in Nat \X Nat, Sooner(y, x)
          PROVE  Sooner(y, <<Len(calls), (last + 1) + 1>>)
      BY <2>3 DEF Sooner
    <2>4. Sooner(x, <<Len(calls), (last + 1) + 1>>)
      BY DEF Sooner
    <2>5. CASE kind = type
      <3>0. ReadsOn(sr, sr2, x) /\ ReadsOn(pr, pr2, x)
        BY <1>1, <1>2, <2>5, GrownReading
      <3>1. Read(sr2) = Read(sr) \union {x} /\ InOrder(sr2)
        BY <2>2, <3>0 DEF ReadsOn
      <3>2. Read(pr2) = Read(pr) \union {x} /\ InOrder(pr2)
        BY <2>2, <3>0 DEF ReadsOn
      <3> HIDE DEF sr, tr, pr, sr2, pr2, x
      <3>3. \A y \in Read(tr) \union Read(pr2) : Sooner(y, <<Len(calls), (last + 1) + 1>>)
        BY <2>2, <2>3, <2>4, <3>2
      <3>4. OrderSound(sr2, tr, pr2, calls, last + 1)
        <4>1. Read(sr2) = Read(tr) \union Read(pr2)
          BY <2>2, <3>1, <3>2
        <4>2. \A y \in Read(tr), z \in Read(pr2) : Sooner(y, z)
          BY <2>2, <3>2
        <4> QED
          BY <1>3, <2>2, <3>1, <3>2, <3>3, <4>1, <4>2 DEF OrderSound
      <3> QED
        BY <3>4 DEF sr2, tr, pr2
    <2>6. CASE kind # type
      <3>1. sr2 = sr /\ pr2 = pr
        <4>1. AlikeBut(shown, more, type) /\ AlikeBut(saying, longer, type)
          BY <1>1, <1>2, GrownReading
        <4> QED
          BY <2>6, <4>1 DEF AlikeBut
      <3> HIDE DEF sr, tr, pr, sr2, pr2, x
      <3>3. \A y \in Read(tr) \union Read(pr2) : Sooner(y, <<Len(calls), (last + 1) + 1>>)
        BY <2>2, <2>3, <3>1
      <3>4. OrderSound(sr2, tr, pr2, calls, last + 1)
        BY <1>3, <2>2, <3>1, <3>3 DEF OrderSound
      <3> QED
        BY <3>4 DEF sr2, tr, pr2
    <2> QED
      BY <2>5, <2>6
  <1> QED
    BY <1>2, <1>4, <1>5 DEF TurnSound

LEMMA PartsGrow ==
    ASSUME NEW p \in Seq(Parts), NEW type \in TextLike, NEW x \in Nat \X Nat, NEW q,
           q = IF p # <<>> /\ Last(p).type = type
               THEN [p EXCEPT ![Len(p)].content = Append(@, x)]
               ELSE Append(p, Part(type, <<x>>))
    PROVE  q \in Seq(Parts) /\ \E k : TextGrows(p, q, k, type, x)
  <1> DEFINE n == Len(p)
  <1>1. n \in Nat /\ DOMAIN p = 1..n /\ \A i \in 1..n : p[i] \in Parts
    BY ElementOfSeq, LenProperties
  <1>2. CASE p # <<>> /\ Last(p).type = type
    <2> DEFINE c == Append(p[n].content, x)
               r == [p[n] EXCEPT !.content = c]
    <2>1. n \in 1..n
      BY <1>1, <1>2, EmptySeq
    <2>2. p[n].type = type /\ p[n].content \in Seq(Nat \X Nat)
      BY <1>1, <1>2, <2>1 DEF Last, Parts, Pieces
    <2>3. c \in Pieces
      BY <2>2 DEF Pieces
    <2>4. q = [p EXCEPT ![n] = r]
      BY <1>2
    <2> HIDE DEF c
    <2>5. r \in Parts /\ r.type = type /\ r.content = c
      BY <1>1, <2>1, <2>2, <2>3 DEF Parts
    <2> HIDE DEF r
    <2>6. q \in Seq(Parts)
      <3>1. p \in [1..n -> Parts]
        BY LenProperties
      <3> HIDE DEF n
      <3>2. q \in [1..n -> Parts]
        BY <2>4, <2>5, <3>1
      <3> QED
        BY <1>1, <3>2
    <2>7. /\ DOMAIN q = 1..n /\ q[n] = r /\ \A i \in 1..n : i # n => q[i] = p[i]
      <3> HIDE DEF n
      <3> QED
        BY <1>1, <2>1, <2>4
    <2>8. TextGrows(p, q, n, type, x)
      <3>1. \A j \in DOMAIN p : ~(j > n)
        BY <1>1
      <3>2. /\ n \in DOMAIN p /\ DOMAIN p \subseteq Nat /\ n \in Nat
            /\ DOMAIN q = DOMAIN p \union {n}
        BY <1>1, <2>1, <2>7
      <3>3. q[n].content = Append(p[n].content, x)
        BY <2>5, <2>7 DEF c
      <3> HIDE DEF n
      <3> QED
        BY <1>1, <2>2, <2>5, <2>7, <3>1, <3>2, <3>3 DEF TextGrows
    <2> QED
      BY <2>6, <2>8
  <1>3. CASE ~(p # <<>> /\ Last(p).type = type)
    <2> DEFINE r == Part(type, <<x>>)
    <2>1. q = Append(p, r)
      BY <1>3
    <2>2. r \in Parts /\ r.type = type /\ r.content = <<x>>
      <3>1. <<x>> \in Pieces
        <4>1. \A y \in Nat \X Nat : <<y>> \in Seq(Nat \X Nat)
          OBVIOUS
        <4> QED
          BY <4>1 DEF Pieces
      <3> QED
        BY <3>1 DEF Part, Parts
    <2> HIDE DEF r
    <2>3. /\ q \in Seq(Parts) /\ Len(q) = n + 1 /\ q[n + 1] = r
          /\ \A i \in 1..n : q[i] = p[i]
      BY <2>1, <2>2, AppendProperties
    <2>4. DOMAIN q = 1..(n + 1)
      BY <2>3, LenProperties
    <2>5. TextGrows(p, q, n + 1, type, x)
      <3>1. \A j \in DOMAIN p : ~(j > n + 1)
        BY <1>1
      <3>2. /\ n + 1 \notin DOMAIN p /\ DOMAIN p \subseteq Nat /\ n + 1 \in Nat
            /\ DOMAIN q = DOMAIN p \union {n + 1}
        BY <1>1, <2>4
      <3> HIDE DEF n
      <3> QED
        BY <1>1, <2>2, <2>3, <3>1, <3>2 DEF TextGrows
    <2> QED
      BY <2>3, <2>5
  <1> QED
    BY <1>2, <1>3

LEMMA LiveGrows ==
    ASSUME LiveInv, ReadInv, NEW type \in TextLike, Say(type), LiveInv', Said(type)
    PROVE  \E k : /\ TextGrows(live.blocks, live'.blocks, k, type, <<Len(tools), deltas + 1>>)
                  /\ live'.blocks[k].id = live'.key[type]
  <1> DEFINE x == <<Len(tools), deltas + 1>>
  <1>1. PICK k \in DOMAIN live'.blocks : Adds(live, live', type, x, k)
    BY DEF Said
  <1>2. live \in Projections /\ live'.blocks \in Seq(Blocks)
    BY InvariantTyped DEF LiveInv, TypeOK
  <1>3. /\ Len(live.blocks) \in Nat /\ DOMAIN live.blocks = 1..Len(live.blocks)
        /\ Len(live'.blocks) \in Nat /\ DOMAIN live'.blocks = 1..Len(live'.blocks)
    BY <1>2, LenProperties DEF Projections
  <1>4. ASSUME NEW j \in DOMAIN live.blocks, j > k
        PROVE  Marks(live.blocks[j], type) = <<>>
    <2>1. k \in DOMAIN live.blocks
      <3>1. \A m, n \in Nat : \A a \in 1..m, c \in 1..n : c > a => a \in 1..n
        OBVIOUS
      <3> QED
        BY <1>3, <1>4, <3>1
    <2>2. live.key[type] # None /\ live.blocks[k].id = live.key[type]
      BY <1>1, <2>1, Zenon DEF Adds
    <2>3. LastOf(live.blocks, live.key[type], type)
      BY <2>2 DEF Say, ReadInv
    <2> QED
      BY <1>4, <2>1, <2>2, <2>3 DEF LastOf, WithId
  <1> HIDE DEF x
  <1>5. TextGrows(live.blocks, live'.blocks, k, type, x)
    <2>1. DOMAIN live.blocks \subseteq Nat /\ k \in Nat
      BY <1>3
    <2> QED
      BY <1>1, <1>4, <2>1 DEF Adds, TextGrows
  <1> QED
    BY <1>1, <1>5 DEF Adds, x

(* The text goes on in the block that was written to last. *)
LEMMA LastGrows ==
    ASSUME LiveInv, ReadInv, NEW type \in TextLike, Say(type), LiveInv', Said(type),
           NEW kind \in TextLike, live'.key[kind] # None
    PROVE  LastOf(live'.blocks, live'.key[kind], kind)
  <1>1. PICK k : /\ TextGrows(live.blocks, live'.blocks, k, type, <<Len(tools), deltas + 1>>)
                 /\ live'.blocks[k].id = live'.key[type]
    BY LiveGrows
  <1>2. /\ DOMAIN live'.blocks = DOMAIN live.blocks \union {k}
        /\ \A i \in DOMAIN live.blocks \ {k} : live'.blocks[i] = live.blocks[i]
        /\ \A j \in DOMAIN live.blocks : j > k => Marks(live.blocks[j], type) = <<>>
        /\ live'.blocks[k].type = type
        /\ k \in Nat /\ DOMAIN live.blocks \subseteq Nat
    BY <1>1 DEF TextGrows
  <1>3. /\ \A i, j \in DOMAIN live'.blocks : live'.blocks[i].id = live'.blocks[j].id => i = j
    BY DEF LiveInv, BlocksSound
  <1> SUFFICES ASSUME NEW i \in DOMAIN live'.blocks, live'.blocks[i].id = live'.key[kind],
                      NEW j \in DOMAIN live'.blocks, j > i
               PROVE  Marks(live'.blocks[j], kind) = <<>>
    BY DEF LastOf, WithId
  <1>4. CASE kind = type
    <2>1. i = k
      BY <1>1, <1>2, <1>3, <1>4
    <2>2. j # k /\ j \in DOMAIN live.blocks
      BY <1>2, <2>1
    <2> QED
      BY <1>2, <1>4, <2>1, <2>2
  <1>5. CASE kind # type
    <2>1. live'.key[kind] = live.key[kind]
      BY <1>5 DEF Said
    <2>2. LastOf(live.blocks, live.key[kind], kind)
      BY <2>1 DEF Say, ReadInv
    <2>3. i # k
      <3>1. live'.key[type] \in {live'.id} \X {type} \X Nat \/ live'.key[type] = None
        BY DEF LiveInv, IdsSound
      <3>2. live'.key[kind] \in {live'.id} \X {kind} \X Nat
        BY DEF LiveInv, IdsSound
      <3>3. live'.blocks[k].id \in {live'.id} \X {type} \X Nat
        <4>1. WellFormed(live', tools', live'.blocks[k])
          BY <1>2 DEF LiveInv, BlocksSound
        <4> QED
          BY <1>2, <4>1 DEF WellFormed
      <3> QED
        BY <1>5, <3>2, <3>3
    <2>4. CASE j = k
      <3>1. "tool_call" \notin TextLike
        BY DEF TextLike
      <3> QED
        BY <1>2, <1>5, <2>4, <3>1 DEF Marks
    <2>5. CASE j # k
      <3>1. /\ i \in DOMAIN live.blocks /\ live.blocks[i].id = live.key[kind]
            /\ j \in DOMAIN live.blocks /\ live'.blocks[j] = live.blocks[j]
        BY <1>2, <2>1, <2>3, <2>5
      <3> QED
        BY <2>2, <3>1 DEF LastOf, WithId
    <2> QED
      BY <2>4, <2>5
  <1> QED
    BY <1>4, <1>5

LEMMA SayReads ==
    ASSUME LiveInv, ReadInv, NEW type \in TextLike, Say(type), LiveInv', live'.open, Said(type)
    PROVE  ReadInv'
  <1> DEFINE x == <<Len(tools), deltas + 1>>
  <1>1. /\ phase = "saying" /\ phase' = "saying" /\ deltas' = deltas + 1
        /\ tools' = tools /\ entries' = entries /\ live'.id = live.id
        /\ parts' = IF parts # <<>> /\ Last(parts).type = type
                    THEN [parts EXCEPT ![Len(parts)].content = Append(@, x)]
                    ELSE Append(parts, Part(type, <<x>>))
    BY DEF Say, Said
  <1>2. /\ parts \in Seq(Parts) /\ entries \in Seq(Entries) /\ live.id > 0
        /\ \A e \in DOMAIN tools : tools[e].state = "ended"
        /\ TurnSound(live.blocks, NormalizeMessages(entries), parts, tools, deltas)
    BY <1>1 DEF ReadInv
  <1>3. live \in Projections /\ tools \in Seq(Calls) /\ DOMAIN tools \subseteq Nat
        /\ deltas \in Nat /\ Len(tools) \in Nat
    <2>1. live \in Projections /\ tools \in Seq(Calls) /\ DOMAIN tools \subseteq Nat
      BY InvariantTyped
    <2> QED
      BY <2>1, LenProperties, LiveTurnAssumption DEF LiveInv, TypeOK
  <1>4. PICK k : TextGrows(live.blocks, live'.blocks, k, type, x)
    BY LiveGrows
  <1>5. x \in Nat \X Nat
    BY <1>3
  <1> HIDE DEF x
  <1>6. parts' \in Seq(Parts) /\ \E l : TextGrows(parts, parts', l, type, x)
    BY <1>1, <1>2, <1>5, PartsGrow
  <1>7. PICK l : TextGrows(parts, parts', l, type, x)
    BY <1>6
  <1>8. TurnSound(live'.blocks, NormalizeMessages(entries), parts', tools, deltas + 1)
    <2>1. Written(One(live.blocks))
      BY <1>3, LiveWritten
    <2> QED
      BY <1>2, <1>3, <1>4, <1>7, <2>1, TurnGoesOn DEF x
  <1>9. \A kind \in TextLike : live'.key[kind] # None => LastOf(live'.blocks, live'.key[kind], kind)
    BY LastGrows
  <1> QED
    BY <1>1, <1>2, <1>6, <1>8, <1>9 DEF ReadInv, HistoryShowsTheTurn

-------------------------------------------------------------------------------
(* A tool goes on *)

FollowedIn(w, calls) ==
    \A d \in DOMAIN calls : calls[d].tool # None /\ calls[d].state # "asked" =>
        /\ \E c \in DOMAIN w.blocks : d \in w.blocks[c].of /\ w.blocks[c].type = "tool_call"
        /\ calls[d].state = "ended" =>
             \E r \in DOMAIN w.blocks : d \in w.blocks[r].of /\ w.blocks[r].type = "tool_result"

(* A step of execution e takes projection p and the tools to w and later. *)
ToolStep(p, w, calls, later, e) ==
    /\ p.blocks \in Seq(Blocks) /\ w.blocks \in Seq(Blocks)
    /\ p.id = w.id /\ BlocksSound(p, calls) /\ BlocksSound(w, later) /\ Others(p, w, e)
    /\ e \in DOMAIN calls /\ DOMAIN calls \subseteq Nat
    /\ DOMAIN later = DOMAIN calls /\ Len(later) = Len(calls)
    /\ \A d \in DOMAIN calls : d # e => later[d] = calls[d]
    /\ later[e].tool = calls[e].tool
    /\ \A d \in DOMAIN calls : calls[d].tool \in {None, ToolId(d)}
    /\ FollowedIn(p, calls) /\ FollowedIn(w, later)

(* A block that tells of a tool with an id *)
LEMMA Named ==
    ASSUME NEW p, NEW calls, BlocksSound(p, calls), DOMAIN calls \subseteq Nat,
           p.blocks \in Seq(Blocks),
           \A d \in DOMAIN calls : calls[d].tool \in {None, ToolId(d)},
           NEW i \in DOMAIN p.blocks, p.blocks[i].type \notin TextLike
    PROVE  \E d \in DOMAIN calls :
             /\ p.blocks[i].of = {d} /\ calls[d].state # "asked"
             /\ p.blocks[i].tool[1] = "id" =>
                  p.blocks[i].tool = ToolId(d) /\ calls[d].tool = ToolId(d)
             /\ calls[d].tool # None => p.blocks[i].tool = ToolId(d)
             /\ p.blocks[i].id = ToolBlockId(p, IF p.blocks[i].type = "tool_call" THEN "call"
                                                ELSE "result", p.blocks[i].tool)
  <1>1. WellFormed(p, calls, p.blocks[i])
    BY DEF BlocksSound
  <1>2. PICK d \in DOMAIN calls : p.blocks[i].of = {d} /\ Tells(p, calls, p.blocks[i].tool, d)
    BY <1>1 DEF WellFormed
  <1>3. p.blocks[i].tool[1] = "id" => calls[d].tool # None
    <2>1. \A n : AnonymousId(n)[1] # "id"
      BY DEF AnonymousId
    <2> QED
      BY <1>2, <2>1 DEF Tells
  <1>4. calls[d].tool # None => p.blocks[i].tool = ToolId(d) /\ calls[d].tool = ToolId(d)
    BY <1>2 DEF Tells
  <1> QED
    BY <1>1, <1>2, <1>3, <1>4 DEF WellFormed, Tells

(* The calls that are first shown in a step *)
Started(p, w, e) ==
    {i \in DOMAIN w.blocks \ DOMAIN p.blocks :
        w.blocks[i].type = "tool_call" /\ w.blocks[i].tool = ToolId(e)}

LEMMA StartedOnce ==
    ASSUME NEW p, NEW w, NEW calls, NEW later, NEW e, ToolStep(p, w, calls, later, e)
    PROVE  /\ \A i, j \in Started(p, w, e) : i = j
           /\ calls[e].tool = None => Started(p, w, e) = {}
           /\ calls[e].state # "asked" => Started(p, w, e) = {}
  <1>1. /\ BlocksSound(w, later) /\ DOMAIN later \subseteq Nat /\ w.blocks \in Seq(Blocks)
        /\ \A d \in DOMAIN later : later[d].tool \in {None, ToolId(d)}
        /\ e \in DOMAIN later /\ later[e].tool = calls[e].tool /\ ToolId(e) # None
    <2>1. e \in Nat /\ ToolId(e) # None
      BY ToolIdsDiffer DEF ToolStep
    <2> QED
      BY <2>1 DEF ToolStep
  <1>2. ASSUME NEW i \in DOMAIN w.blocks, w.blocks[i].type = "tool_call",
               w.blocks[i].tool = ToolId(e)
        PROVE  w.blocks[i].id = <<w.id, "call", ToolId(e)>> /\ calls[e].tool # None
    <2>1. w.blocks[i].type \notin TextLike /\ w.blocks[i].tool[1] = "id"
      BY <1>2 DEF TextLike, ToolId
    <2>2. PICK d \in DOMAIN later :
             /\ w.blocks[i].tool[1] = "id" =>
                  w.blocks[i].tool = ToolId(d) /\ later[d].tool = ToolId(d)
             /\ w.blocks[i].id = ToolBlockId(w, IF w.blocks[i].type = "tool_call" THEN "call"
                                                ELSE "result", w.blocks[i].tool)
      BY <1>1, <2>1, Named
    <2>3. d = e
      BY <1>1, <1>2, <2>1, <2>2, ToolIdsDiffer
    <2> QED
      BY <1>1, <1>2, <2>1, <2>2, <2>3 DEF ToolBlockId
  <1>3. \A i, j \in DOMAIN w.blocks : w.blocks[i].id = w.blocks[j].id => i = j
    BY <1>1 DEF BlocksSound
  <1>4. \A i, j \in Started(p, w, e) : i = j
    BY <1>2, <1>3 DEF Started
  <1>5. calls[e].tool = None => Started(p, w, e) = {}
    BY <1>2 DEF Started
  <1>6. ASSUME calls[e].state # "asked", NEW i \in Started(p, w, e)
        PROVE  FALSE
    <2>1. calls[e].tool # None
      BY <1>2 DEF Started
    <2>2. PICK c \in DOMAIN p.blocks : e \in p.blocks[c].of /\ p.blocks[c].type = "tool_call"
      BY <1>6, <2>1 DEF ToolStep, FollowedIn
    <2>3. p.blocks[c].type \notin TextLike
      BY <2>2 DEF TextLike
    <2>4. PICK d \in DOMAIN calls :
             /\ p.blocks[c].of = {d}
             /\ calls[d].tool # None => p.blocks[c].tool = ToolId(d)
      <3>1. /\ BlocksSound(p, calls) /\ DOMAIN calls \subseteq Nat /\ p.blocks \in Seq(Blocks)
            /\ \A d \in DOMAIN calls : calls[d].tool \in {None, ToolId(d)}
        BY DEF ToolStep
      <3> QED
        BY <2>2, <2>3, <3>1, Named
    <2>5. d = e /\ p.blocks[c].of = {e} /\ p.blocks[c].tool = ToolId(e)
      BY <2>1, <2>2, <2>4
    <2>6. /\ c \in DOMAIN w.blocks /\ w.blocks[c].type = "tool_call"
          /\ w.blocks[c].tool = ToolId(e)
      BY <2>2, <2>5 DEF ToolStep, Others
    <2>7. i \in DOMAIN w.blocks /\ w.blocks[i].type = "tool_call" /\ w.blocks[i].tool = ToolId(e)
          /\ i \notin DOMAIN p.blocks
      BY DEF Started
    <2> QED
      BY <1>2, <1>3, <2>6, <2>7
  <1> QED
    BY <1>4, <1>5, <1>6

(* Blocks that are in both are read alike; of the others, the calls started are. *)
StepMarks(old, new, type, started, e) ==
    /\ \A i \in DOMAIN old : i \in DOMAIN new /\ Marks(new[i], type) = Marks(old[i], type)
    /\ \A i \in DOMAIN new \ DOMAIN old :
        Marks(new[i], type) = IF i \in started THEN << <<e, 0>> >> ELSE <<>>

LEMMA MarksOfStep ==
    ASSUME NEW p, NEW w, NEW calls, NEW later, NEW e, ToolStep(p, w, calls, later, e),
           NEW type \in TextLike
    PROVE  StepMarks(p.blocks, w.blocks, type, Started(p, w, e), e)
  <1>0. "tool_call" \notin TextLike
    BY DEF TextLike
  <1>1. /\ BlocksSound(p, calls) /\ BlocksSound(w, later) /\ w.blocks \in Seq(Blocks)
        /\ DOMAIN later \subseteq Nat /\ e \in Nat
        /\ \A d \in DOMAIN later : later[d].tool \in {None, ToolId(d)}
        /\ Others(p, w, e)
    BY DEF ToolStep
  <1>2. ASSUME NEW i \in DOMAIN p.blocks
        PROVE  i \in DOMAIN w.blocks /\ Marks(w.blocks[i], type) = Marks(p.blocks[i], type)
    <2>1. CASE p.blocks[i].of # {e}
      BY <1>1, <2>1 DEF Others
    <2>2. CASE p.blocks[i].of = {e}
      <3>1. p.blocks[i].type \notin TextLike
        <4>1. WellFormed(p, calls, p.blocks[i])
          BY <1>1 DEF BlocksSound
        <4> QED
          BY <2>2, <4>1 DEF WellFormed
      <3>2. /\ i \in DOMAIN w.blocks /\ w.blocks[i].type = p.blocks[i].type
            /\ w.blocks[i].tool = p.blocks[i].tool
        BY <1>1, <2>2 DEF Others
      <3> QED
        BY <3>1, <3>2 DEF Marks
    <2> QED
      BY <2>1, <2>2
  <1>3. ASSUME NEW i \in DOMAIN w.blocks, i \notin DOMAIN p.blocks
        PROVE  Marks(w.blocks[i], type)
                 = IF i \in Started(p, w, e) THEN << <<e, 0>> >> ELSE <<>>
    <2>1. w.blocks[i].of = {e}
      BY <1>1, <1>3 DEF Others
    <2>2. w.blocks[i].type \notin TextLike
      <3>1. WellFormed(w, later, w.blocks[i])
        BY <1>1 DEF BlocksSound
      <3> QED
        BY <2>1, <3>1 DEF WellFormed
    <2>3. PICK d \in DOMAIN later :
             /\ w.blocks[i].of = {d}
             /\ w.blocks[i].tool[1] = "id" =>
                  w.blocks[i].tool = ToolId(d) /\ later[d].tool = ToolId(d)
      BY <1>1, <2>2, Named
    <2>4. d = e /\ (w.blocks[i].tool[1] = "id" => w.blocks[i].tool = ToolId(e))
      BY <2>1, <2>3
    <2>5. ToolId(e)[1] = "id" /\ ToolId(e)[2] = e
      BY DEF ToolId
    <2>6. CASE i \in Started(p, w, e)
      <3>1. w.blocks[i].type = "tool_call" /\ w.blocks[i].tool = ToolId(e)
        BY <2>6 DEF Started
      <3>2. w.blocks[i].tool[1] = "id" /\ w.blocks[i].tool[2] = e
        BY <2>5, <3>1
      <3> QED
        BY <2>2, <2>6, <3>1, <3>2 DEF Marks
    <2>7. CASE i \notin Started(p, w, e)
      <3>1. ~(w.blocks[i].type = "tool_call" /\ w.blocks[i].tool[1] = "id")
        BY <1>3, <2>4, <2>7 DEF Started
      <3> QED
        BY <2>2, <2>7, <3>1 DEF Marks
    <2> QED
      BY <2>6, <2>7
  <1> QED
    BY <1>2, <1>3 DEF StepMarks

(* The blocks of one view are read like those of the other, and no more are. *)
ReadAsBefore(view, later, type) ==
    /\ DOMAIN later = DOMAIN view
    /\ \A m \in DOMAIN view :
        /\ \A i \in DOMAIN view[m] :
                i \in DOMAIN later[m] /\ Marks(later[m][i], type) = Marks(view[m][i], type)
        /\ \A i \in DOMAIN later[m] \ DOMAIN view[m] : Marks(later[m][i], type) = <<>>

LEMMA SameMarks ==
    ASSUME NEW view, NEW later, NEW type, ReadAsBefore(view, later, type)
    PROVE  Reading(later, type) = Reading(view, type)
  <1> USE DEF ReadAsBefore
  <1>1. ASSUME NEW s \in Reading(later, type)
        PROVE  s \in Reading(view, type)
    <2>1. PICK m \in DOMAIN later : \E i \in DOMAIN later[m] :
                 \E k \in DOMAIN Marks(later[m][i], type) :
                   s = << <<m, i, k>>, Marks(later[m][i], type)[k] >>
      BY ReadingAt
    <2>2. PICK i \in DOMAIN later[m] : \E k \in DOMAIN Marks(later[m][i], type) :
                   s = << <<m, i, k>>, Marks(later[m][i], type)[k] >>
      BY <2>1
    <2>3. i \in DOMAIN view[m] /\ Marks(later[m][i], type) = Marks(view[m][i], type)
      <3>1. DOMAIN <<>> = {}
        OBVIOUS
      <3> QED
        BY <2>2, <3>1
    <2> QED
      BY <2>2, <2>3, ReadingAt
  <1>2. ASSUME NEW s \in Reading(view, type)
        PROVE  s \in Reading(later, type)
    <2>1. PICK m \in DOMAIN view : \E i \in DOMAIN view[m] :
                 \E k \in DOMAIN Marks(view[m][i], type) :
                   s = << <<m, i, k>>, Marks(view[m][i], type)[k] >>
      BY ReadingAt
    <2>2. PICK i \in DOMAIN view[m] : \E k \in DOMAIN Marks(view[m][i], type) :
                   s = << <<m, i, k>>, Marks(view[m][i], type)[k] >>
      BY <2>1
    <2>3. i \in DOMAIN later[m] /\ Marks(later[m][i], type) = Marks(view[m][i], type)
      OBVIOUS
    <2> QED
      BY <2>2, <2>3, ReadingAt
  <1> QED
    BY <1>1, <1>2

(* Nothing is read in another place unless the step starts a call. *)
LEMMA StepReadsSame ==
    ASSUME NEW p, NEW w, NEW calls, NEW later, NEW e, ToolStep(p, w, calls, later, e),
           NEW type \in TextLike, Started(p, w, e) = {}
    PROVE  Reading(One(w.blocks), type) = Reading(One(p.blocks), type)
  <1>0. StepMarks(p.blocks, w.blocks, type, {}, e)
    BY MarksOfStep
  <1>1. /\ \A i \in DOMAIN p.blocks :
                i \in DOMAIN w.blocks /\ Marks(w.blocks[i], type) = Marks(p.blocks[i], type)
        /\ \A i \in DOMAIN w.blocks \ DOMAIN p.blocks : Marks(w.blocks[i], type) = <<>>
    BY <1>0 DEF StepMarks
  <1>2. /\ DOMAIN One(w.blocks) = DOMAIN One(p.blocks)
        /\ \A m \in DOMAIN One(p.blocks) :
             One(w.blocks)[m] = w.blocks /\ One(p.blocks)[m] = p.blocks
    BY DEF One
  <1>3. ReadAsBefore(One(p.blocks), One(w.blocks), type)
    BY <1>1, <1>2 DEF ReadAsBefore
  <1> QED
    BY <1>3, SameMarks

LEMMA StepReadsMore ==
    ASSUME NEW p, NEW w, NEW calls, NEW later, NEW e, ToolStep(p, w, calls, later, e),
           NEW type \in TextLike, NEW c \in Started(p, w, e)
    PROVE  Reading(One(w.blocks), type)
             = Reading(One(p.blocks), type) \union {<< <<1, c, 1>>, <<e, 0>> >>}
  <1> DEFINE u == << <<1, c, 1>>, <<e, 0>> >>
  <1>0. StepMarks(p.blocks, w.blocks, type, Started(p, w, e), e)
    BY MarksOfStep
  <1>1. /\ \A i \in DOMAIN p.blocks :
                i \in DOMAIN w.blocks /\ Marks(w.blocks[i], type) = Marks(p.blocks[i], type)
        /\ \A i \in DOMAIN w.blocks \ DOMAIN p.blocks :
                Marks(w.blocks[i], type)
                  = IF i \in Started(p, w, e) THEN << <<e, 0>> >> ELSE <<>>
    BY <1>0 DEF StepMarks
  <1>2. \A view, kind, s :
          s \in Reading(One(view), kind) <=>
            \E i \in DOMAIN view : \E j \in DOMAIN Marks(view[i], kind) :
                s = << <<1, i, j>>, Marks(view[i], kind)[j] >>
    BY ReadingAt DEF One
  <1>3. /\ c \in DOMAIN w.blocks \ DOMAIN p.blocks /\ \A i \in Started(p, w, e) : i = c
    BY StartedOnce DEF Started
  <1>4. /\ DOMAIN << <<e, 0>> >> = {1} /\ << <<e, 0>> >>[1] = <<e, 0>> /\ DOMAIN <<>> = {}
    OBVIOUS
  <1>5. Marks(w.blocks[c], type) = << <<e, 0>> >>
    BY <1>1, <1>3
  <1>6. \A i \in DOMAIN w.blocks \ DOMAIN p.blocks : i = c \/ Marks(w.blocks[i], type) = <<>>
    BY <1>1, <1>3
  <1>7. ASSUME NEW s \in Reading(One(w.blocks), type)
        PROVE  s \in Reading(One(p.blocks), type) \union {u}
    <2>1. PICK i \in DOMAIN w.blocks : \E j \in DOMAIN Marks(w.blocks[i], type) :
                s = << <<1, i, j>>, Marks(w.blocks[i], type)[j] >>
      BY <1>2
    <2>2. PICK j \in DOMAIN Marks(w.blocks[i], type) :
                s = << <<1, i, j>>, Marks(w.blocks[i], type)[j] >>
      BY <2>1
    <2>3. CASE i \in DOMAIN p.blocks
      BY <1>1, <1>2, <2>2, <2>3
    <2>4. CASE i \notin DOMAIN p.blocks
      <3>1. i = c
        BY <1>4, <1>6, <2>2, <2>4
      <3>2. j = 1
        BY <1>4, <1>5, <2>2, <3>1
      <3> QED
        BY <1>4, <1>5, <2>2, <3>1, <3>2
    <2> QED
      BY <2>3, <2>4
  <1>8. ASSUME NEW s \in Reading(One(p.blocks), type)
        PROVE  s \in Reading(One(w.blocks), type)
    <2>1. PICK i \in DOMAIN p.blocks : \E j \in DOMAIN Marks(p.blocks[i], type) :
                s = << <<1, i, j>>, Marks(p.blocks[i], type)[j] >>
      BY <1>2
    <2>2. i \in DOMAIN w.blocks /\ Marks(w.blocks[i], type) = Marks(p.blocks[i], type)
      BY <1>1
    <2> QED
      BY <1>2, <2>1, <2>2
  <1>9. u \in Reading(One(w.blocks), type)
    BY <1>2, <1>3, <1>4, <1>5
  <1> QED
    BY <1>7, <1>8, <1>9

(* What a block of a step is about *)
NamedAs(w, later, b, d) ==
    /\ b.of = {d} /\ later[d].state # "asked"
    /\ b.tool[1] = "id" => b.tool = ToolId(d) /\ later[d].tool = ToolId(d)
    /\ later[d].tool # None => b.tool = ToolId(d)
    /\ b.id = ToolBlockId(w, IF b.type = "tool_call" THEN "call" ELSE "result", b.tool)

LEMMA NamedInStep ==
    ASSUME NEW p, NEW w, NEW calls, NEW later, NEW e, ToolStep(p, w, calls, later, e),
           NEW i \in DOMAIN w.blocks, w.blocks[i].type \notin TextLike
    PROVE  \E d \in DOMAIN later : NamedAs(w, later, w.blocks[i], d)
  <1>1. /\ BlocksSound(w, later) /\ DOMAIN later \subseteq Nat /\ w.blocks \in Seq(Blocks)
        /\ \A d \in DOMAIN later : later[d].tool \in {None, ToolId(d)}
    <2>1. e \in DOMAIN calls /\ \A d \in DOMAIN calls : d # e => later[d] = calls[d]
      BY DEF ToolStep
    <2> QED
      BY <2>1 DEF ToolStep
  <1> QED
    BY <1>1, Named DEF NamedAs

LEMMA StepSpoken ==
    ASSUME NEW p, NEW w, NEW calls, NEW later, NEW e, ToolStep(p, w, calls, later, e),
           Spoken(One(p.blocks))
    PROVE  Spoken(One(w.blocks))
  <1>1. ASSUME NEW i \in DOMAIN w.blocks, w.blocks[i].type \in TextLike
        PROVE  i \in DOMAIN p.blocks /\ w.blocks[i] = p.blocks[i]
    <2>1. WellFormed(w, later, w.blocks[i]) /\ Others(p, w, e)
      BY DEF ToolStep, BlocksSound
    <2>2. w.blocks[i].of # {e}
      BY <1>1, <2>1 DEF WellFormed
    <2> QED
      BY <2>1, <2>2 DEF Others
  <1> QED
    BY <1>1 DEF Spoken, One

(* Execution e is shown with the status of its result. *)
EndedIn(w, e) ==
    \E c, r \in DOMAIN w.blocks :
        /\ w.blocks[c].type = "tool_call" /\ w.blocks[c].of = {e}
        /\ w.blocks[c].status = StatusOf(e \in Failing)
        /\ w.blocks[r].type = "tool_result" /\ w.blocks[r].of = {e}
        /\ w.blocks[r].status = StatusOf(e \in Failing)

LEMMA StepSettled ==
    ASSUME NEW p, NEW w, NEW calls, NEW later, NEW e, ToolStep(p, w, calls, later, e),
           ToolsSettled(One(p.blocks), calls),
           later[e].tool # None /\ later[e].state = "ended" => EndedIn(w, e)
    PROVE  ToolsSettled(One(w.blocks), later)
  <1>0. "tool_call" \notin TextLike /\ "tool_result" \notin TextLike
    BY DEF TextLike
  <1>1. /\ DOMAIN later = DOMAIN calls /\ DOMAIN calls \subseteq Nat
        /\ \A d \in DOMAIN calls : d # e => later[d] = calls[d]
        /\ w.blocks \in Seq(Blocks) /\ Others(p, w, e) /\ FollowedIn(w, later)
    BY DEF ToolStep
  <1>2. \A i, j \in DOMAIN w.blocks : w.blocks[i].id = w.blocks[j].id => i = j
    BY DEF ToolStep, BlocksSound
  <1>3. ASSUME NEW i \in DOMAIN w.blocks, w.blocks[i].type \notin TextLike,
               w.blocks[i].tool[1] = "id"
        PROVE  Settled(w.blocks, w.blocks[i], later)
    <2> DEFINE b == w.blocks[i]
    <2>1. PICK d \in DOMAIN later : NamedAs(w, later, b, d)
      BY <1>3, NamedInStep
    <2>2. /\ b.of = {d} /\ b.tool = ToolId(d) /\ later[d].tool = ToolId(d)
          /\ later[d].state # "asked"
          /\ b.id = ToolBlockId(w, IF b.type = "tool_call" THEN "call" ELSE "result", b.tool)
      BY <1>3, <2>1 DEF NamedAs
    <2>3. d \in Nat /\ b.tool[2] = d /\ ToolId(d) # None
      BY <1>1, <2>2, ToolIdsDiffer DEF ToolId
    <2>4. ASSUME NEW c \in DOMAIN w.blocks, d \in w.blocks[c].of,
                 w.blocks[c].type \notin TextLike
          PROVE  w.blocks[c].tool = ToolId(d) /\ w.blocks[c].id =
                   ToolBlockId(w, IF w.blocks[c].type = "tool_call" THEN "call" ELSE "result",
                               ToolId(d))
      <3>1. PICK f \in DOMAIN later : NamedAs(w, later, w.blocks[c], f)
        BY <2>4, NamedInStep
      <3>2. f = d
        BY <2>4, <3>1 DEF NamedAs
      <3> QED
        BY <2>2, <2>3, <3>1, <3>2 DEF NamedAs
    <2>5. CallBlocks(w.blocks, b.tool) # {}
      <3>1. PICK c \in DOMAIN w.blocks : d \in w.blocks[c].of /\ w.blocks[c].type = "tool_call"
        BY <1>1, <2>2, <2>3 DEF FollowedIn
      <3> QED
        BY <1>0, <2>2, <2>4, <3>1 DEF CallBlocks
    <2>6. ASSUME later[d].state = "ended"
          PROVE  b.status = StatusOf(d \in Failing) /\ Results(w.blocks, b.tool) # {}
      <3>1. PICK r \in DOMAIN w.blocks : d \in w.blocks[r].of /\ w.blocks[r].type = "tool_result"
        BY <1>1, <2>2, <2>3, <2>6 DEF FollowedIn
      <3>2. Results(w.blocks, b.tool) # {}
        BY <1>0, <2>2, <2>4, <3>1 DEF Results
      <3>3. CASE d # e
        <4>1. i \in DOMAIN p.blocks /\ b = p.blocks[i] /\ calls[d].state = "ended"
          BY <1>1, <2>2, <2>6, <3>3 DEF Others
        <4>2. Settled(p.blocks, b, calls)
          BY <1>3, <4>1 DEF ToolsSettled, One
        <4> QED
          BY <2>3, <3>2, <4>1, <4>2 DEF Settled
      <3>4. CASE d = e
        <4>1. PICK c \in DOMAIN w.blocks, s \in DOMAIN w.blocks :
                 /\ w.blocks[c].type = "tool_call" /\ w.blocks[c].of = {d}
                 /\ w.blocks[c].status = StatusOf(d \in Failing)
                 /\ w.blocks[s].type = "tool_result" /\ w.blocks[s].of = {d}
                 /\ w.blocks[s].status = StatusOf(d \in Failing)
          BY <2>2, <2>3, <2>6, <3>4 DEF EndedIn
        <4>2. b.type = "tool_call" \/ b.type = "tool_result"
          <5>1. b \in Blocks
            BY <1>1, ElementOfSeq
          <5> HIDE DEF b
          <5>2. b.type \in TextLike \union {"tool_call", "tool_result"}
            BY <5>1 DEF Blocks
          <5>3. b.type \notin TextLike
            BY <1>3 DEF b
          <5> QED
            BY <5>2, <5>3
        <4>3. CASE b.type = "tool_call"
          <5>1. w.blocks[c].id = ToolBlockId(w, "call", ToolId(d))
            BY <1>0, <2>4, <4>1
          <5>2. i = c
            BY <1>2, <2>2, <4>3, <5>1
          <5> QED
            BY <3>2, <4>1, <5>2
        <4>4. CASE b.type = "tool_result"
          <5>1. w.blocks[s].id = ToolBlockId(w, "result", ToolId(d))
            BY <1>0, <2>4, <4>1
          <5>2. i = s
            BY <1>2, <2>2, <4>4, <5>1
          <5> QED
            BY <3>2, <4>1, <5>2
        <4> QED
          BY <4>2, <4>3, <4>4
      <3> QED
        BY <3>3, <3>4
    <2> QED
      BY <2>2, <2>3, <2>5, <2>6 DEF Settled
  <1> QED
    BY <1>3 DEF ToolsSettled, One

(* A number that is read is that of a call with an id. *)
LEMMA CallIsRead ==
    ASSUME NEW view, NEW type \in TextLike, NEW m \in DOMAIN view, NEW i \in DOMAIN view[m],
           NEW e, view[m][i].type = "tool_call", view[m][i].tool = ToolId(e)
    PROVE  << <<m, i, 1>>, <<e, 0>> >> \in Reading(view, type)
  <1>1. Marks(view[m][i], type) = << <<e, 0>> >>
    <2>1. "tool_call" \notin TextLike
      BY DEF TextLike
    <2>2. view[m][i].tool[1] = "id" /\ view[m][i].tool[2] = e
      BY DEF ToolId
    <2> QED
      BY <2>1, <2>2 DEF Marks
  <1>2. DOMAIN << <<e, 0>> >> = {1} /\ << <<e, 0>> >>[1] = <<e, 0>>
    OBVIOUS
  <1> QED
    BY <1>1, <1>2, ReadingAt

LEMMA ReadIsCall ==
    ASSUME NEW view, NEW calls, Spoken(view), ToolsSettled(view, calls), NEW type \in TextLike,
           NEW e, <<e, 0>> \in Read(Reading(view, type))
    PROVE  e \in DOMAIN calls /\ calls[e].tool = ToolId(e)
  <1>1. PICK s \in Reading(view, type) : s[2] = <<e, 0>>
    BY DEF Read
  <1>2. PICK m \in DOMAIN view : \E i \in DOMAIN view[m] :
               \E k \in DOMAIN Marks(view[m][i], type) :
                 s = << <<m, i, k>>, Marks(view[m][i], type)[k] >>
    BY ReadingAt
  <1>3. PICK i \in DOMAIN view[m] : \E k \in DOMAIN Marks(view[m][i], type) :
                 s = << <<m, i, k>>, Marks(view[m][i], type)[k] >>
    BY <1>2
  <1>4. PICK k \in DOMAIN Marks(view[m][i], type) : Marks(view[m][i], type)[k] = <<e, 0>>
    BY <1>1, <1>3
  <1> DEFINE b == view[m][i]
  <1>5. b.type # type
    <2> SUFFICES ASSUME b.type = type
                 PROVE  FALSE
      OBVIOUS
    <2>1. b.content \in Seq(Nat \X (Nat \ {0})) /\ Marks(b, type) = b.content
      <3>1. b.type \in TextLike
        OBVIOUS
      <3>2. b.content \in Seq(Nat \X (Nat \ {0}))
        BY <3>1 DEF Spoken
      <3>3. b.type # "tool_call"
        BY <3>1 DEF TextLike
      <3> QED
        BY <3>2, <3>3 DEF Marks
    <2>2. \A j \in DOMAIN b.content : b.content[j][2] # 0
      BY <2>1, SaidPositive
    <2> QED
      BY <1>4, <2>1, <2>2
  <1>6. b.type = "tool_call" /\ b.tool[1] = "id"
    <2>1. DOMAIN <<>> = {}
      OBVIOUS
    <2> QED
      BY <1>4, <1>5, <2>1 DEF Marks
  <1>7. Marks(b, type) = << <<b.tool[2], 0>> >>
    BY <1>5, <1>6 DEF Marks
  <1>8. b.tool[2] = e
    <2>1. k = 1
      <3>1. DOMAIN << <<b.tool[2], 0>> >> = {1}
        OBVIOUS
      <3> QED
        BY <1>7, <3>1
    <2> HIDE DEF b
    <2> QED
      BY <1>4, <1>7, <2>1 DEF b
  <1>9. Settled(view[m], b, calls)
    <2>1. "tool_call" \notin TextLike
      BY DEF TextLike
    <2> QED
      BY <1>6, <2>1 DEF ToolsSettled
  <1> QED
    BY <1>8, <1>9 DEF Settled

(* In what was read before nothing is settled otherwise by a tool that goes on. *)
LEMMA GoesOnSettled ==
    ASSUME NEW p, NEW w, NEW calls, NEW later, NEW e, ToolStep(p, w, calls, later, e),
           calls[e].state # "ended", later[e].state # "ended",
           NEW view, ToolsSettled(view, calls), ResultsSound(view, calls)
    PROVE  ToolsSettled(view, later) /\ ResultsSound(view, later)
  <1>1. /\ DOMAIN later = DOMAIN calls /\ later[e].tool = calls[e].tool
        /\ \A d \in DOMAIN calls : d # e => later[d] = calls[d]
    BY DEF ToolStep
  <1>2. ToolsSettled(view, later)
    BY <1>1 DEF ToolsSettled, Settled
  <1>3. ASSUME NEW m \in DOMAIN view, NEW i \in DOMAIN view[m]
        PROVE  ResultSound(view[m][i], later)
    <2> DEFINE b == view[m][i]
    <2>1. ResultSound(b, calls)
      BY DEF ResultsSound
    <2>2. b.type = "tool_result" /\ b.tool[1] = "id" => b.tool[2] \in DOMAIN calls
      <3>1. "tool_result" \notin TextLike
        BY DEF TextLike
      <3> QED
        BY <3>1 DEF ToolsSettled, Settled
    <2> HIDE DEF b
    <2> QED
      BY <1>1, <2>1, <2>2 DEF ResultSound, b
  <1> QED
    BY <1>2, <1>3 DEF ResultsSound

(* A call with an id that starts is shown. *)
LEMMA StartShown ==
    ASSUME NEW p, NEW w, NEW calls, NEW later, NEW e, ToolStep(p, w, calls, later, e),
           calls[e].state = "asked", later[e].state # "asked", calls[e].tool # None
    PROVE  Started(p, w, e) # {}
  <1>1. /\ DOMAIN later = DOMAIN calls /\ later[e].tool = calls[e].tool
        /\ e \in DOMAIN calls /\ FollowedIn(w, later) /\ Others(p, w, e)
        /\ "tool_call" \notin TextLike
    BY DEF ToolStep, TextLike
  <1>2. PICK c \in DOMAIN w.blocks : e \in w.blocks[c].of /\ w.blocks[c].type = "tool_call"
    BY <1>1 DEF FollowedIn
  <1>3. PICK d \in DOMAIN later : NamedAs(w, later, w.blocks[c], d)
    BY <1>1, <1>2, NamedInStep
  <1>4. w.blocks[c].of = {e} /\ w.blocks[c].tool = ToolId(e)
    BY <1>1, <1>2, <1>3 DEF NamedAs
  <1>5. c \notin DOMAIN p.blocks
    <2> SUFFICES ASSUME c \in DOMAIN p.blocks
                 PROVE  FALSE
      OBVIOUS
    <2>1. p.blocks[c].of = {e} /\ p.blocks[c].type = "tool_call"
      BY <1>1, <1>2, <1>4 DEF Others
    <2>2. WellFormed(p, calls, p.blocks[c])
      BY DEF ToolStep, BlocksSound
    <2>3. PICK f \in DOMAIN calls : p.blocks[c].of = {f} /\ calls[f].state # "asked"
      BY <1>1, <2>1, <2>2 DEF WellFormed, Tells
    <2> QED
      BY <2>1, <2>3
  <1> QED
    BY <1>2, <1>4, <1>5 DEF Started

LEMMA StepOrder ==
    ASSUME NEW p, NEW w, NEW calls, NEW later, NEW e, ToolStep(p, w, calls, later, e),
           NEW type \in TextLike, NEW told, NEW last,
           OrderSound(Reading(One(p.blocks), type), told, {}, calls, last),
           later[e].state # "asked",
           calls[e].state = "asked" => \A d \in Asked(calls) : e <= d,
           calls[e].state = "asked" => (calls[e].tool # None <=> <<e, 0>> \in Read(told))
    PROVE  OrderSound(Reading(One(w.blocks), type), told, {}, later, last)
  <1> DEFINE old == Reading(One(p.blocks), type)
             new == Reading(One(w.blocks), type)
  <1>1. /\ DOMAIN later = DOMAIN calls /\ Len(later) = Len(calls)
        /\ e \in DOMAIN calls /\ DOMAIN calls \subseteq Nat
        /\ \A d \in DOMAIN calls : d # e => later[d] = calls[d]
    BY DEF ToolStep
  <1>2. Asked(later) = Asked(calls) \ {e}
    BY <1>1 DEF Asked
  <1>3. Read({}) = {}
    BY DEF Read
  <1>4. /\ InOrder(old) /\ InOrder(told) /\ InOrder({})
        /\ Read(old) = Read(told) \ {<<d, 0>> : d \in Asked(calls)}
        /\ \A x \in Read(told) : Sooner(x, <<Len(calls), last + 1>>)
        /\ \A x \in Read(old), d \in Asked(calls) : Sooner(x, <<d, 0>>)
    BY <1>3 DEF OrderSound
  <1>5. CASE Started(p, w, e) = {}
    <2>1. new = old
      BY <1>5, StepReadsSame
    <2>2. calls[e].state = "asked" => <<e, 0>> \notin Read(told)
      BY <1>5, StartShown
    <2>3. e \notin Asked(calls) \/ <<e, 0>> \notin Read(told)
      BY <2>2 DEF Asked
    <2> HIDE DEF old, new
    <2>4. Read(old) = Read(told) \ {<<d, 0>> : d \in Asked(later)}
      BY <1>2, <1>4, <2>3
    <2> QED
      BY <1>1, <1>2, <1>3, <1>4, <2>1, <2>4 DEF OrderSound, new
  <1>6. ASSUME NEW c \in Started(p, w, e)
        PROVE  OrderSound(Reading(One(w.blocks), type), told, {}, later, last)
    <2> DEFINE u == << <<1, c, 1>>, <<e, 0>> >>
    <2>1. calls[e].state = "asked" /\ calls[e].tool # None
      BY StartedOnce
    <2>2. new = old \union {u}
      BY StepReadsMore
    <2>3. e \in Asked(calls) /\ <<e, 0>> \in Read(told) /\ \A d \in Asked(calls) : e <= d
      BY <1>1, <2>1 DEF Asked
    <2>4. c \in Nat /\ \A i \in DOMAIN p.blocks : i \in Nat /\ i < c
      <3>1. /\ c \in DOMAIN w.blocks \ DOMAIN p.blocks
            /\ w.blocks \in Seq(Blocks) /\ p.blocks \in Seq(Blocks)
        BY DEF Started, ToolStep
      <3>2. /\ Len(p.blocks) \in Nat /\ DOMAIN p.blocks = 1..Len(p.blocks)
            /\ Len(w.blocks) \in Nat /\ DOMAIN w.blocks = 1..Len(w.blocks)
        BY <3>1, LenProperties
      <3> QED
        BY <3>1, <3>2
    <2>5. ASSUME NEW s \in old
          PROVE  ~Earlier(u[1], s[1]) /\ Sooner(s[2], u[2])
      <3>1. PICK m \in DOMAIN One(p.blocks) : \E i \in DOMAIN One(p.blocks)[m] :
                 \E k \in DOMAIN Marks(One(p.blocks)[m][i], type) :
                   s = << <<m, i, k>>, Marks(One(p.blocks)[m][i], type)[k] >>
        BY ReadingAt
      <3>2. m = 1 /\ One(p.blocks)[m] = p.blocks
        BY DEF One
      <3>3. PICK i \in DOMAIN p.blocks : \E k \in DOMAIN Marks(p.blocks[i], type) :
                   s = << <<m, i, k>>, Marks(p.blocks[i], type)[k] >>
        BY <3>1, <3>2
      <3>4. s[1][1] = 1 /\ s[1][2] = i
        BY <3>2, <3>3
      <3>5. ~Earlier(u[1], s[1])
        BY <2>4, <3>4 DEF Earlier
      <3>6. Sooner(s[2], <<e, 0>>)
        <4>1. s[2] \in Read(old)
          BY DEF Read
        <4> QED
          BY <1>4, <2>3, <4>1
      <3> QED
        BY <3>5, <3>6
    <2>6. InOrder({u})
      <3>1. ~Earlier(u[1], u[1])
        BY <1>1, <2>4 DEF Earlier
      <3> QED
        BY <3>1 DEF InOrder
    <2> HIDE DEF old, new, u
    <2>7. InOrder(new)
      BY <1>4, <2>2, <2>5, <2>6, OrderGrows, Zenon
    <2>8. Read(new) = Read(old) \union {<<e, 0>>}
      <3>1. u[2] = <<e, 0>>
        BY DEF u
      <3> QED
        BY <2>2, <3>1 DEF Read
    <2>9. Read(new) = Read(told) \ {<<d, 0>> : d \in Asked(later)}
      BY <1>2, <1>4, <2>3, <2>8
    <2>10. ASSUME NEW d \in Asked(later)
           PROVE  Sooner(<<e, 0>>, <<d, 0>>)
      <3>1. d \in Nat /\ e \in Nat /\ d # e /\ e <= d
        BY <1>1, <1>2, <2>3 DEF Asked
      <3> QED
        BY <3>1 DEF Sooner
    <2>11. \A x \in Read(new), d \in Asked(later) : Sooner(x, <<d, 0>>)
      BY <1>2, <1>4, <2>8, <2>10, Zenon
    <2> QED
      BY <1>1, <1>3, <1>4, <2>7, <2>9, <2>11 DEF OrderSound, new
  <1> QED
    BY <1>5, <1>6

(* The last answer of the messages *)
LEMMA LastAnswer ==
    ASSUME NEW messages \in Seq(Messages), HasAssistant(messages)
    PROVE  /\ Len(messages) \in DOMAIN AnswersOf(messages)
           /\ AnswersOf(messages)[Len(messages)] = Last(messages).blocks
  <1>1. Len(messages) \in Nat \ {0} /\ DOMAIN messages = 1..Len(messages)
    <2>1. messages # <<>>
      BY DEF HasAssistant
    <2> QED
      BY <2>1, EmptySeq, LenProperties
  <1> QED
    BY <1>1 DEF HasAssistant, Last, AnswersOf

LEMMA StepTurn ==
    ASSUME NEW p, NEW w, NEW calls, NEW later, NEW e, ToolStep(p, w, calls, later, e),
           NEW messages, NEW last, TurnSound(p.blocks, messages, <<>>, calls, last),
           CallsListed(messages, calls),
           calls[e].state # "ended", later[e].state = "running",
           calls[e].state = "asked" => \A d \in Asked(calls) : e <= d
    PROVE  TurnSound(w.blocks, messages, <<>>, later, last) /\ CallsListed(messages, later)
  <1> DEFINE old == AnswersOf(messages)
  <1>1. /\ Spoken(One(p.blocks)) /\ Spoken(old) /\ Spoken(One(<<>>))
        /\ ToolsSettled(One(p.blocks), calls) /\ ToolsSettled(old, calls)
        /\ messages \in Seq(Messages) /\ ResultsSound(old, calls)
        /\ \A type \in TextLike :
              OrderSound(Reading(One(p.blocks), type), Reading(old, type), {}, calls, last)
    BY NothingRead DEF TurnSound
  <1>2. /\ DOMAIN later = DOMAIN calls /\ later[e].tool = calls[e].tool
        /\ e \in DOMAIN calls /\ DOMAIN calls \subseteq Nat
        /\ \A d \in DOMAIN calls : d # e => later[d] = calls[d]
        /\ \A d \in DOMAIN calls : calls[d].tool \in {None, ToolId(d)}
    BY DEF ToolStep
  <1>3. Spoken(One(w.blocks)) /\ ToolsSettled(One(w.blocks), later)
    BY <1>1, StepSpoken, StepSettled
  <1>4. ToolsSettled(old, later) /\ ResultsSound(old, later)
    BY <1>1, GoesOnSettled
  <1>5. ASSUME NEW type \in TextLike
        PROVE  OrderSound(Reading(One(w.blocks), type), Reading(old, type), {}, later, last)
    <2>1. ASSUME calls[e].state = "asked", calls[e].tool # None
          PROVE  <<e, 0>> \in Read(Reading(old, type))
      <3>1. PICK i \in CallBlocks(Last(messages).blocks, ToolId(e)) : TRUE
        BY <1>2, <2>1 DEF CallsListed
      <3>2. Len(messages) \in DOMAIN old /\ old[Len(messages)] = Last(messages).blocks
        BY <1>1, LastAnswer DEF CallsListed
      <3>3. /\ i \in DOMAIN old[Len(messages)]
            /\ old[Len(messages)][i].type = "tool_call"
            /\ old[Len(messages)][i].tool = ToolId(e)
        BY <3>1, <3>2 DEF CallBlocks
      <3> HIDE DEF old
      <3>4. << <<Len(messages), i, 1>>, <<e, 0>> >> \in Reading(old, type)
        BY <3>2, <3>3, CallIsRead
      <3> QED
        BY <3>4 DEF Read
    <2>2. ASSUME <<e, 0>> \in Read(Reading(old, type))
          PROVE  calls[e].tool # None
      <3>1. calls[e].tool = ToolId(e) /\ e \in Nat
        BY <1>1, <1>2, <2>2, ReadIsCall
      <3> QED
        BY <3>1, ToolIdsDiffer
    <2> HIDE DEF old
    <2> QED
      BY <1>1, <2>1, <2>2, StepOrder
  <1>6. CallsListed(messages, later)
    BY <1>2 DEF CallsListed
  <1> QED
    BY <1>1, <1>3, <1>4, <1>5, <1>6, NothingRead DEF TurnSound

LEMMA StepIs ==
    ASSUME LiveInv, LiveInv', NEW e \in DOMAIN tools, Moved(e), StepOf(e)
    PROVE  ToolStep(live, live', tools, tools', e)
  <1>1. live \in Projections /\ tools \in Seq(Calls) /\ DOMAIN tools \subseteq Nat
    BY InvariantTyped
  <1>0. BlocksSound(live, tools) /\ FollowedSound /\ IdsSound
    BY DEF LiveInv
  <1>2. BlocksSound(live', tools') /\ FollowedSound' /\ TypeOK'
    BY DEF LiveInv
  <1>3. live.blocks \in Seq(Blocks) /\ live'.blocks \in Seq(Blocks)
    BY <1>1, <1>2 DEF Projections, TypeOK
  <1>5. \A d \in DOMAIN tools : tools[d].tool \in {None, ToolId(d)}
    BY <1>0 DEF IdsSound
  <1>6. FollowedIn(live, tools)
    <2>1. phase = "tools"
      BY DEF StepOf
    <2> QED
      BY <1>0, <2>1 DEF FollowedSound, FollowedIn, Closed, ShownAs
  <1>7. FollowedIn(live', tools')
    <2>1. phase' = "tools"
      BY DEF StepOf
    <2> QED
      BY <1>2, <2>1 DEF FollowedSound, FollowedIn, Closed, ShownAs
  <1> QED
    BY <1>0, <1>1, <1>2, <1>3, <1>5, <1>6, <1>7 DEF ToolStep, Moved, StepOf

(* A tool that starts or goes on, and nothing of it is in the history *)
LEMMA StepReads ==
    ASSUME LiveInv, ReadInv, LiveInv', NEW e \in DOMAIN tools, Moved(e), StepOf(e),
           entries' = entries, tools[e].state # "ended", tools'[e].state = "running",
           tools[e].state = "asked" => \A d \in Asked(tools) : e <= d
    PROVE  ReadInv'
  <1> DEFINE messages == NormalizeMessages(entries)
  <1>1. phase = "tools" /\ phase' = "tools" /\ parts' = parts /\ deltas' = deltas
    BY DEF StepOf
  <1>2. /\ parts \in Seq(Parts) /\ parts = <<>> /\ entries \in Seq(Entries)
        /\ CallsListed(messages, tools) /\ live.id > 0 /\ (~live.open => seen = NoMessage)
        /\ TurnSound(live.blocks, messages, <<>>, tools, deltas)
    <2>1. parts = <<>>
      BY <1>1 DEF ReadInv
    <2> QED
      BY <1>1, <2>1 DEF ReadInv
  <1>3. ToolStep(live, live', tools, tools', e)
    BY StepIs
  <1> HIDE DEF messages
  <1>4. TurnSound(live'.blocks, messages, <<>>, tools', deltas) /\ CallsListed(messages, tools')
    BY <1>2, <1>3, StepTurn
  <1>5. live'.id > 0 /\ (~live'.open => seen' = NoMessage)
    BY <1>2 DEF Moved
  <1> QED
    BY <1>1, <1>2, <1>4, <1>5 DEF ReadInv, HistoryShowsTheTurn, messages

LEMMA ToolStartReads ==
    ASSUME LiveInv, ReadInv, NEW e \in DOMAIN tools, ToolStart(e)
    PROVE  ReadInv'
  <1>1. LiveInv' /\ Moved(e) /\ StepOf(e) /\ tools'[e].state = "running"
    BY ToolStartKeeps
  <1>2. \A d \in Asked(tools) : e <= d
    <2>1. DOMAIN tools \subseteq Nat
      BY InvariantTyped
    <2>2. \A d \in 1..(e - 1) : tools[d].state # "asked"
      BY DEF ToolStart
    <2>3. \A d \in DOMAIN tools : d >= 1
      <3>1. tools \in Seq(Calls)
        BY InvariantTyped
      <3> QED
        BY <3>1, LenProperties
    <2> QED
      BY <2>1, <2>2, <2>3 DEF Asked
  <1>3. entries' = entries /\ tools[e].state = "asked"
    BY DEF ToolStart
  <1> QED
    BY <1>1, <1>2, <1>3, StepReads

LEMMA ToolUpdateReads ==
    ASSUME LiveInv, ReadInv, NEW e \in DOMAIN tools, ToolUpdate(e)
    PROVE  ReadInv'
  <1>1. LiveInv' /\ Moved(e) /\ StepOf(e) /\ tools'[e].state = "running"
    BY ToolUpdateKeeps
  <1>2. entries' = entries /\ tools[e].state = "running"
    BY DEF ToolUpdate
  <1> QED
    BY <1>1, <1>2, StepReads

-------------------------------------------------------------------------------
(* A tool ends *)

PlacedAt(blocks, indices, block, k, result) ==
    /\ result \in Seq(HistoryBlocks) /\ DOMAIN result = DOMAIN blocks \union {k}
    /\ result[k] = block
    /\ \A i \in DOMAIN blocks \ {k} : result[i] = blocks[i]
    /\ IF indices = {} THEN k \notin DOMAIN blocks ELSE k \in indices

LEMMA PlacedSomewhere ==
    ASSUME NEW blocks \in Seq(HistoryBlocks), NEW block \in HistoryBlocks,
           NEW indices, indices \subseteq DOMAIN blocks
    PROVE  \E k : /\ indices # {} => k = Min(indices)
                  /\ PlacedAt(blocks, indices, block, k, Placed(blocks, indices, block))
  <1>1. Len(blocks) \in Nat /\ DOMAIN blocks = 1..Len(blocks)
    BY LenProperties
  <1>2. CASE indices = {}
    <2> DEFINE n == Len(blocks)
               result == Append(blocks, block)
    <2>1. Placed(blocks, indices, block) = result
      BY <1>2 DEF Placed
    <2>2. /\ result \in Seq(HistoryBlocks) /\ Len(result) = n + 1
          /\ \A i \in 1..n : result[i] = blocks[i]
          /\ result[n + 1] = block
      BY AppendProperties
    <2>3. DOMAIN result = 1..(n + 1)
      BY <2>2, LenProperties
    <2> HIDE DEF result, n
    <2>4. n + 1 \notin 1..n /\ 1..(n + 1) = (1..n) \union {n + 1}
      BY <1>1 DEF n
    <2>5. PlacedAt(blocks, indices, block, n + 1, result)
      BY <1>1, <1>2, <2>2, <2>3, <2>4 DEF PlacedAt, n
    <2> QED
      BY <1>2, <2>1, <2>5
  <1>3. CASE indices # {}
    <2> DEFINE k == Min(indices)
               result == [blocks EXCEPT ![k] = block]
    <2>1. Placed(blocks, indices, block) = result
      BY <1>3 DEF Placed
    <2>2. k \in indices
      <3>1. indices \subseteq Nat
        BY <1>1
      <3> QED
        BY <1>3, <3>1, LeastOfNaturals
    <2> HIDE DEF k
    <2>3. /\ DOMAIN result = DOMAIN blocks /\ result[k] = block
          /\ \A i \in DOMAIN blocks \ {k} : result[i] = blocks[i]
      BY <2>2
    <2>4. result \in Seq(HistoryBlocks)
      <3>1. blocks \in [1..Len(blocks) -> HistoryBlocks]
        BY <1>1
      <3>2. result \in [1..Len(blocks) -> HistoryBlocks]
        BY <3>1
      <3> QED
        BY <1>1, <3>2
    <2> HIDE DEF result
    <2>5. PlacedAt(blocks, indices, block, k, result)
      BY <1>3, <2>2, <2>3, <2>4 DEF PlacedAt
    <2> QED
      BY <2>1, <2>5 DEF k
  <1> QED
    BY <1>2, <1>3

(* A block that tells of a tool that ended, by its number in the history *)
Retold(b, num, error) ==
    /\ b.type \in {"tool_call", "tool_result"} /\ b.tool = num /\ b.status = StatusOf(error)
    /\ b.id[2] = "result" => b.type = "tool_result" /\ b.id[3] = num

ResultAdded(old, new, num, e, error) ==
    /\ \A i \in DOMAIN old :
        /\ i \in DOMAIN new /\ new[i].type = old[i].type /\ new[i].tool = old[i].tool
        /\ new[i] = old[i] \/ Retold(new[i], num, error)
    /\ \A i \in DOMAIN new \ DOMAIN old :
        /\ Retold(new[i], num, error) /\ new[i].of = {e}
        /\ new[i].type = "tool_call" => CallBlocks(old, num) = {}
    /\ CallBlocks(new, num) # {} /\ Results(new, num) # {}
    /\ \A i \in CallBlocks(old, num) :
        (\A j \in CallBlocks(old, num) : j = i) =>
            Retold(new[i], num, error) /\ new[i].of = old[i].of

Identified(blocks) ==
    \A i \in DOMAIN blocks : blocks[i].id[2] = "result" =>
        blocks[i].type = "tool_result" /\ blocks[i].tool = blocks[i].id[3]

LEMMA ResultAppended ==
    ASSUME NEW message \in Messages, Identified(message.blocks),
           NEW tool \in ToolIds \union {None}, NEW e \in Nat, NEW error \in BOOLEAN,
           NEW index \in Nat
    PROVE  LET later == AppendToolResult(message, ResultEntry(tool, e, error), index)
           IN  /\ later \in Messages /\ later.role = message.role
               /\ ResultAdded(message.blocks, later.blocks, Numbered(tool, index), e, error)
  <1> DEFINE entry == ResultEntry(tool, e, error)
             later == AppendToolResult(message, entry, index)
             num == Numbered(tool, index)
             callId == <<message.id, "call", num>>
             resultId == <<message.id, "result", num>>
             old == message.blocks
             at == CallBlocks(old, num)
             call == IF at = {}
                     THEN Block(callId, "tool_call", num, {e}, <<>>, StatusOf(error))
                     ELSE [old[Min(at)] EXCEPT !.id = callId, !.status = StatusOf(error)]
             called == Placed(old, at, call)
             found == {i \in DOMAIN called : called[i].id = resultId}
             result == Block(resultId, "tool_result", num, {e}, Final, StatusOf(error))
             new == Placed(called, found, result)
  <1>1. later = [message EXCEPT !.blocks = new]
    <2>1. entry.tool = tool /\ entry.of = {e} /\ entry.error = error
      BY DEF ResultEntry
    <2> QED
      BY <2>1 DEF AppendToolResult
  <1>2. old \in Seq(HistoryBlocks) /\ message.id \in Nat /\ DOMAIN old \subseteq Nat
    <2>1. old \in Seq(HistoryBlocks) /\ message.id \in Nat
      BY DEF Messages
    <2> HIDE DEF old
    <2> QED
      BY <2>1, LenProperties
  <1>3. num \in Numbers
    BY DEF Numbered, Numbers, ToolIds
  <1>4. /\ callId \in HistoryIds /\ resultId \in HistoryIds /\ callId # resultId
        /\ StatusOf(error) \in Statuses /\ Final \in Pieces /\ <<>> \in Pieces
    <2>1. callId \in HistoryIds /\ resultId \in HistoryIds /\ callId # resultId
      <3> HIDE DEF num
      <3> QED
        BY <1>2, <1>3 DEF HistoryIds
    <2>2. StatusOf(error) \in Statuses
      BY DEF StatusOf, Statuses
    <2>3. Final \in Pieces
      <3>1. \A x \in Nat \X Nat : <<x>> \in Seq(Nat \X Nat)
        OBVIOUS
      <3> QED
        BY <3>1 DEF Final, Pieces
    <2>4. <<>> \in Pieces
      BY DEF Pieces
    <2> QED
      BY <2>1, <2>2, <2>3, <2>4
  <1>5. at # {} => Min(at) \in at
    <2>1. at \subseteq Nat
      BY <1>2 DEF CallBlocks
    <2> HIDE DEF at
    <2> QED
      BY <2>1, LeastOfNaturals
  <1>6. /\ call \in HistoryBlocks /\ call.type = "tool_call" /\ call.tool = num
        /\ call.id = callId /\ call.status = StatusOf(error)
        /\ call.of = IF at = {} THEN {e} ELSE old[Min(at)].of
    <2>1. CASE at = {}
      <3>1. call = Block(callId, "tool_call", num, {e}, <<>>, StatusOf(error))
        BY <2>1
      <3> HIDE DEF callId, num, call
      <3> QED
        BY <1>3, <1>4, <2>1, <3>1 DEF Block, HistoryBlocks
    <2>2. CASE at # {}
      <3> DEFINE k == Min(at)
      <3>1. /\ k \in DOMAIN old /\ old[k].type = "tool_call" /\ old[k].tool = num
        BY <1>5, <2>2 DEF CallBlocks
      <3>2. call = [old[k] EXCEPT !.id = callId, !.status = StatusOf(error)]
        BY <2>2
      <3> HIDE DEF old, k, call, callId, num, at
      <3>3. old[k] \in HistoryBlocks
        BY <1>2, <3>1, ElementOfSeq
      <3> QED
        BY <1>4, <2>2, <3>1, <3>2, <3>3 DEF HistoryBlocks, k
    <2> QED
      BY <2>1, <2>2
  <1>7. /\ result \in HistoryBlocks /\ result.type = "tool_result" /\ result.tool = num
        /\ result.id = resultId /\ result.status = StatusOf(error) /\ result.of = {e}
    <2> HIDE DEF resultId, num
    <2> QED
      BY <1>3, <1>4 DEF Block, HistoryBlocks
  <1> HIDE DEF call, result
  <1>8. PICK k : (at # {} => k = Min(at)) /\ PlacedAt(old, at, call, k, called)
    <2>1. at \subseteq DOMAIN old
      BY DEF CallBlocks
    <2> HIDE DEF at, old
    <2> QED
      BY <1>2, <1>6, <2>1, PlacedSomewhere
  <1>9. /\ called \in Seq(HistoryBlocks) /\ DOMAIN called = DOMAIN old \union {k}
        /\ called[k] = call /\ \A i \in DOMAIN old \ {k} : called[i] = old[i]
        /\ IF at = {} THEN k \notin DOMAIN old ELSE k \in at
    BY <1>8 DEF PlacedAt
  <1> HIDE DEF called
  <1>10. PICK l : PlacedAt(called, found, result, l, new)
    <2>1. found \subseteq DOMAIN called
      OBVIOUS
    <2> HIDE DEF found
    <2> QED
      BY <1>7, <1>9, <2>1, PlacedSomewhere
  <1>11. /\ new \in Seq(HistoryBlocks) /\ DOMAIN new = DOMAIN called \union {l}
         /\ new[l] = result /\ \A i \in DOMAIN called \ {l} : new[i] = called[i]
         /\ IF found = {} THEN l \notin DOMAIN called ELSE l \in found
    BY <1>10 DEF PlacedAt
  <1> HIDE DEF new
  <1>12. l # k
    BY <1>4, <1>6, <1>9, <1>11
  <1>13. l \in DOMAIN old => old[l].type = "tool_result" /\ old[l].tool = num
    <2> SUFFICES ASSUME l \in DOMAIN old
                 PROVE  old[l].type = "tool_result" /\ old[l].tool = num
      OBVIOUS
    <2>1. old[l].id = resultId
      BY <1>9, <1>11, <1>12
    <2> QED
      BY <2>1 DEF Identified
  <1>14. later \in Messages /\ later.role = message.role /\ later.blocks = new
    <2> HIDE DEF later
    <2> QED
      BY <1>1, <1>11 DEF Messages
  <1>15. Retold(call, num, error) /\ Retold(result, num, error)
    BY <1>6, <1>7 DEF Retold
  <1>16. new[k] = call /\ k \in DOMAIN new /\ l \in DOMAIN new
    BY <1>9, <1>11, <1>12
  <1>17. ResultAdded(old, new, num, e, error)
    <2>1. ASSUME NEW i \in DOMAIN old
          PROVE  /\ i \in DOMAIN new /\ new[i].type = old[i].type /\ new[i].tool = old[i].tool
                 /\ new[i] = old[i] \/ Retold(new[i], num, error)
      <3>1. CASE i = k
        <4>1. old[k].type = "tool_call" /\ old[k].tool = num
          BY <1>9, <3>1 DEF CallBlocks
        <4> QED
          BY <1>6, <1>15, <1>16, <3>1, <4>1
      <3>2. CASE i = l
        BY <1>7, <1>11, <1>13, <1>15, <1>16, <3>2
      <3>3. CASE i # k /\ i # l
        BY <1>9, <1>11, <3>3
      <3> QED
        BY <3>1, <3>2, <3>3
    <2>2. ASSUME NEW i \in DOMAIN new, i \notin DOMAIN old
          PROVE  /\ Retold(new[i], num, error) /\ new[i].of = {e}
                 /\ new[i].type = "tool_call" => CallBlocks(old, num) = {}
      <3>1. i = k \/ i = l
        BY <1>9, <1>11, <2>2
      <3>2. CASE i = k
        <4>1. at = {}
          BY <1>9, <2>2, <3>2 DEF CallBlocks
        <4> QED
          BY <1>6, <1>15, <1>16, <3>2, <4>1
      <3>3. CASE i = l
        BY <1>7, <1>11, <1>15, <3>3
      <3> QED
        BY <3>1, <3>2, <3>3
    <2>3. k \in CallBlocks(new, num) /\ l \in Results(new, num)
      BY <1>6, <1>7, <1>11, <1>16 DEF CallBlocks, Results
    <2>4. ASSUME NEW i \in CallBlocks(old, num), \A j \in CallBlocks(old, num) : j = i
          PROVE  Retold(new[i], num, error) /\ new[i].of = old[i].of
      <3>1. at # {} /\ k = i
        BY <1>9, <2>4
      <3>2. k = Min(at)
        BY <1>8, <3>1
      <3> QED
        BY <1>6, <1>15, <1>16, <3>1, <3>2
    <2> HIDE DEF old, num
    <2> QED
      BY <2>1, <2>2, <2>3, <2>4 DEF ResultAdded
  <1> QED
    BY <1>14, <1>17

(* In message n of a view the tool of execution e is told of as it ended. *)
EndsIn(view, new, n, num, e, error) ==
    /\ DOMAIN new = DOMAIN view /\ n \in DOMAIN view
    /\ \A m \in DOMAIN view : m # n => new[m] = view[m]
    /\ ResultAdded(view[n], new[n], num, e, error)

LEMMA ResultReplaces ==
    ASSUME NEW messages \in Seq(Messages), HasAssistant(messages),
           NEW message \in Messages, message.role = "assistant",
           NEW num, NEW e, NEW error,
           ResultAdded(Last(messages).blocks, message.blocks, num, e, error)
    PROVE  LET later == WithLast(messages, message)
           IN  /\ later \in Seq(Messages) /\ HasAssistant(later) /\ Last(later) = message
               /\ EndsIn(AnswersOf(messages), AnswersOf(later), Len(messages), num, e, error)
  <1> DEFINE later == WithLast(messages, message)
             n == Len(messages)
  <1>1. /\ later \in Seq(Messages) /\ Len(later) = n /\ DOMAIN later = DOMAIN messages
        /\ later[n] = message /\ Last(later) = message
        /\ \A m \in DOMAIN messages : m # n => later[m] = messages[m]
    BY LastReplaced
  <1>2. n \in DOMAIN messages /\ messages[n] = Last(messages) /\ n \in Nat \ {0}
    <2>1. messages # <<>>
      BY DEF HasAssistant
    <2>2. n \in Nat \ {0} /\ DOMAIN messages = 1..n
      BY <2>1, EmptySeq, LenProperties
    <2> QED
      BY <2>2 DEF Last
  <1> HIDE DEF later, n
  <1>3. HasAssistant(later)
    <2>1. later # <<>>
      BY <1>1, <1>2
    <2> QED
      BY <1>1, <2>1 DEF HasAssistant
  <1>4. {m \in DOMAIN later : later[m].role = "assistant"}
          = {m \in DOMAIN messages : messages[m].role = "assistant"}
    BY <1>1, <1>2 DEF HasAssistant
  <1>5. EndsIn(AnswersOf(messages), AnswersOf(later), n, num, e, error)
    <2>1. n \in {m \in DOMAIN messages : messages[m].role = "assistant"}
      BY <1>2 DEF HasAssistant
    <2> QED
      BY <1>1, <1>2, <1>4, <2>1 DEF EndsIn, AnswersOf
  <1> QED
    BY <1>1, <1>3, <1>5 DEF later, n

(* A tool with an id is told of by one call, in message n, and by no result. *)
OnlyCall(view, n, num) ==
    /\ CallBlocks(view[n], num) # {}
    /\ \A m \in DOMAIN view : \A i \in DOMAIN view[m] :
        view[m][i].type \in {"tool_call", "tool_result"} /\ view[m][i].tool = num =>
            /\ m = n /\ view[m][i].type = "tool_call"
            /\ \A j \in CallBlocks(view[n], num) : j = i

LEMMA CalledOnce ==
    ASSUME NEW view, NEW calls, NEW type \in TextLike, Definite(Reading(view, type)),
           InOrder(Reading(view, type)), ResultsSound(view, calls),
           NEW n \in DOMAIN view, NEW e, calls[e].state # "ended",
           CallBlocks(view[n], ToolId(e)) # {}
    PROVE  OnlyCall(view, n, ToolId(e))
  <1>1. ASSUME NEW m \in DOMAIN view, NEW i \in DOMAIN view[m],
               view[m][i].type \in {"tool_call", "tool_result"}, view[m][i].tool = ToolId(e),
               NEW j \in CallBlocks(view[n], ToolId(e))
        PROVE  m = n /\ view[m][i].type = "tool_call" /\ j = i
    <2>1. view[m][i].type = "tool_call"
      <3>1. ResultSound(view[m][i], calls)
        BY DEF ResultsSound
      <3>2. ToolId(e)[1] = "id" /\ ToolId(e)[2] = e
        BY DEF ToolId
      <3> QED
        BY <1>1, <3>1, <3>2 DEF ResultSound
    <2>2. << <<m, i, 1>>, <<e, 0>> >> \in Reading(view, type)
      BY <1>1, <2>1, CallIsRead
    <2>3. << <<n, j, 1>>, <<e, 0>> >> \in Reading(view, type)
      <3>1. /\ j \in DOMAIN view[n] /\ view[n][j].type = "tool_call"
            /\ view[n][j].tool = ToolId(e)
        BY <1>1 DEF CallBlocks
      <3> QED
        BY <3>1, CallIsRead
    <2>4. << <<m, i, 1>>, <<e, 0>> >> = << <<n, j, 1>>, <<e, 0>> >>
      BY <2>2, <2>3, ReadOnce
    <2> QED
      BY <2>1, <2>4
  <1> QED
    BY <1>1 DEF OnlyCall

LEMMA EndReadsSame ==
    ASSUME NEW view, NEW new, NEW n, NEW num, NEW e, NEW error,
           EndsIn(view, new, n, num, e, error),
           num[1] = "id" => OnlyCall(view, n, num), NEW type \in TextLike
    PROVE  Reading(new, type) = Reading(view, type)
  <1>0. "tool_call" \notin TextLike /\ "tool_result" \notin TextLike
    BY DEF TextLike
  <1>1. ASSUME NEW i \in DOMAIN view[n]
        PROVE  i \in DOMAIN new[n] /\ Marks(new[n][i], type) = Marks(view[n][i], type)
    <2>1. /\ i \in DOMAIN new[n] /\ new[n][i].type = view[n][i].type
          /\ new[n][i].tool = view[n][i].tool
          /\ new[n][i] = view[n][i] \/ Retold(new[n][i], num, error)
      BY DEF EndsIn, ResultAdded
    <2>2. ASSUME Retold(new[n][i], num, error)
          PROVE  Marks(new[n][i], type) = Marks(view[n][i], type)
      <3>1. new[n][i].type # type /\ view[n][i].type # type
        BY <1>0, <2>1, <2>2 DEF Retold
      <3> QED
        BY <2>1, <3>1 DEF Marks
    <2> QED
      BY <2>1, <2>2
  <1>2. ASSUME NEW i \in DOMAIN new[n], i \notin DOMAIN view[n]
        PROVE  Marks(new[n][i], type) = <<>>
    <2>1. Retold(new[n][i], num, error) /\ (new[n][i].type = "tool_call" => CallBlocks(view[n], num) = {})
      BY <1>2 DEF EndsIn, ResultAdded
    <2>2. new[n][i].type # type
      BY <1>0, <2>1 DEF Retold
    <2>3. ~(new[n][i].type = "tool_call" /\ new[n][i].tool[1] = "id")
      BY <2>1 DEF Retold, OnlyCall
    <2> QED
      BY <2>2, <2>3 DEF Marks
  <1>3. ReadAsBefore(view, new, type)
    BY <1>1, <1>2 DEF EndsIn, ReadAsBefore
  <1> QED
    BY <1>3, SameMarks

LEMMA EndSpoken ==
    ASSUME NEW view, NEW new, NEW n, NEW num, NEW e, NEW error,
           EndsIn(view, new, n, num, e, error), Spoken(view)
    PROVE  Spoken(new)
  <1> SUFFICES ASSUME NEW m \in DOMAIN new, NEW i \in DOMAIN new[m], new[m][i].type \in TextLike
               PROVE  new[m][i].content \in Seq(Nat \X (Nat \ {0}))
    BY DEF Spoken
  <1>1. CASE m # n
    BY <1>1 DEF EndsIn, Spoken
  <1>2. CASE m = n
    <2>1. ~Retold(new[n][i], num, error)
      BY <1>2 DEF Retold, TextLike
    <2>2. i \in DOMAIN view[n] /\ new[n][i] = view[n][i]
      BY <1>2, <2>1 DEF EndsIn, ResultAdded
    <2> QED
      BY <1>2, <2>2 DEF EndsIn, Spoken
  <1> QED
    BY <1>1, <1>2

(* Execution e ended. *)
EndOf(calls, later, e) ==
    /\ e \in DOMAIN calls /\ DOMAIN calls \subseteq Nat /\ DOMAIN later = DOMAIN calls
    /\ \A d \in DOMAIN calls : d # e => later[d] = calls[d]
    /\ later[e].tool = calls[e].tool /\ calls[e].tool \in {None, ToolId(e)}
    /\ calls[e].state = "running" /\ later[e].state = "ended"

KindsKnown(view) ==
    \A m \in DOMAIN view : \A i \in DOMAIN view[m] :
        view[m][i].type \in TextLike \union {"tool_call", "tool_result"}

LEMMA EndSettled ==
    ASSUME NEW view, NEW new, NEW n, NEW num, NEW e, EndsIn(view, new, n, num, e, e \in Failing),
           NEW calls, NEW later, EndOf(calls, later, e), KindsKnown(view),
           ToolsSettled(view, calls), NEW index, num = Numbered(calls[e].tool, index),
           calls[e].tool # None => OnlyCall(view, n, num)
    PROVE  ToolsSettled(new, later)
  <1>0. "tool_call" \notin TextLike /\ "tool_result" \notin TextLike
    BY DEF TextLike
  <1>1. /\ e \in Nat /\ ToolId(e) # None /\ ToolId(e)[1] = "id" /\ ToolId(e)[2] = e
        /\ calls[e].tool # None => num = ToolId(e) /\ calls[e].tool = num
        /\ calls[e].tool = None => num[1] # "id"
    <2>1. e \in Nat /\ calls[e].tool \in {None, ToolId(e)}
      BY DEF EndOf
    <2>2. ToolId(e) # None
      BY <2>1, ToolIdsDiffer
    <2> QED
      BY <2>1, <2>2 DEF Numbered, ToolId
  <1> SUFFICES ASSUME NEW m \in DOMAIN new, NEW i \in DOMAIN new[m],
                      new[m][i].type \notin TextLike, new[m][i].tool[1] = "id"
               PROVE  Settled(new[m], new[m][i], later)
    BY DEF ToolsSettled
  <1> DEFINE b == new[m][i]
  <1>2. CASE m # n
    <2>1. m \in DOMAIN view /\ new[m] = view[m] /\ i \in DOMAIN view[m]
      BY <1>2 DEF EndsIn
    <2>2. Settled(view[m], b, calls)
      BY <2>1 DEF ToolsSettled
    <2>3. b.tool[2] # e
      <3> SUFFICES ASSUME b.tool[2] = e
                   PROVE  FALSE
        OBVIOUS
      <3>1. b.tool = ToolId(e) /\ calls[e].tool = ToolId(e)
        BY <2>2 DEF Settled
      <3>2. OnlyCall(view, n, num) /\ num = ToolId(e)
        BY <1>1, <3>1
      <3>3. view[m][i].type \in {"tool_call", "tool_result"} /\ view[m][i].tool = num
        BY <2>1, <3>1, <3>2 DEF KindsKnown
      <3> QED
        BY <1>2, <2>1, <3>2, <3>3 DEF OnlyCall
    <2>4. b.tool[2] \in DOMAIN calls
      BY <2>2 DEF Settled
    <2> HIDE DEF b
    <2>5. Settled(view[m], b, later)
      BY <2>2, <2>3, <2>4 DEF Settled, EndOf
    <2> QED
      BY <2>1, <2>5 DEF b
  <1>3. CASE m = n /\ b.tool = num
    <2>1. calls[e].tool # None /\ num = ToolId(e) /\ calls[e].tool = num
      BY <1>1, <1>3
    <2>2. OnlyCall(view, n, num) /\ n \in DOMAIN view
          /\ ResultAdded(view[n], new[n], num, e, e \in Failing)
      BY <2>1 DEF EndsIn
    <2>3. b.of = {e} /\ b.status = StatusOf(e \in Failing)
      <3>1. CASE i \in DOMAIN view[n]
        <4>1. view[n][i].type = b.type /\ view[n][i].tool = num
          BY <1>3, <2>2, <3>1 DEF ResultAdded
        <4>2. view[n][i].type \in {"tool_call", "tool_result"}
          BY <2>2, <3>1, <4>1 DEF KindsKnown
        <4>3. view[n][i].type = "tool_call" /\ \A j \in CallBlocks(view[n], num) : j = i
          BY <2>2, <3>1, <4>1, <4>2 DEF OnlyCall
        <4>4. i \in CallBlocks(view[n], num)
          BY <3>1, <4>1, <4>3 DEF CallBlocks
        <4>5. Retold(b, num, e \in Failing) /\ b.of = view[n][i].of
          BY <1>3, <2>2, <4>3, <4>4 DEF ResultAdded
        <4>6. Settled(view[n], view[n][i], calls)
          BY <1>0, <1>1, <2>1, <2>2, <3>1, <4>1, <4>3 DEF ToolsSettled
        <4>7. view[n][i].of = {e}
          BY <1>1, <2>1, <4>1, <4>6 DEF Settled
        <4> QED
          BY <4>5, <4>7 DEF Retold
      <3>2. CASE i \notin DOMAIN view[n]
        BY <1>3, <2>2, <3>2 DEF ResultAdded, Retold
      <3> QED
        BY <3>1, <3>2
    <2>4. CallBlocks(new[m], b.tool) # {} /\ Results(new[m], b.tool) # {}
      BY <1>3, <2>2 DEF ResultAdded
    <2> HIDE DEF b
    <2> QED
      BY <1>1, <1>3, <2>1, <2>3, <2>4 DEF Settled, EndOf, b
  <1>4. CASE m = n /\ b.tool # num
    <2>1. n \in DOMAIN view /\ ResultAdded(view[n], new[n], num, e, e \in Failing)
      BY DEF EndsIn
    <2>2. i \in DOMAIN view[n] /\ b = view[n][i]
      BY <1>4, <2>1 DEF ResultAdded, Retold
    <2>3. Settled(view[n], b, calls)
      BY <2>1, <2>2 DEF ToolsSettled
    <2>4. b.tool[2] \in DOMAIN calls /\ b.tool[2] # e
      BY <1>1, <1>4, <2>3 DEF Settled
    <2>5. /\ CallBlocks(view[n], b.tool) \subseteq CallBlocks(new[n], b.tool)
          /\ Results(view[n], b.tool) \subseteq Results(new[n], b.tool)
      BY <2>1 DEF ResultAdded, CallBlocks, Results
    <2> HIDE DEF b
    <2>6. Settled(new[n], b, later)
      BY <2>3, <2>4, <2>5 DEF Settled, EndOf
    <2> QED
      BY <1>4, <2>6 DEF b
  <1> QED
    BY <1>2, <1>3, <1>4

LEMMA EndResults ==
    ASSUME NEW view, NEW new, NEW n, NEW num, NEW e, EndsIn(view, new, n, num, e, e \in Failing),
           NEW calls, NEW later, EndOf(calls, later, e),
           ToolsSettled(view, calls), ResultsSound(view, calls),
           NEW index, num = Numbered(calls[e].tool, index)
    PROVE  ResultsSound(new, later)
  <1> SUFFICES ASSUME NEW m \in DOMAIN new, NEW i \in DOMAIN new[m]
               PROVE  ResultSound(new[m][i], later)
    BY DEF ResultsSound
  <1> DEFINE b == new[m][i]
  <1>1. CASE m \in DOMAIN view /\ i \in DOMAIN view[m] /\ b = view[m][i]
    <2>1. ResultSound(b, calls)
      BY <1>1 DEF ResultsSound
    <2>2. b.type = "tool_result" /\ b.tool[1] = "id" => b.tool[2] \in DOMAIN calls
      <3>1. "tool_result" \notin TextLike
        BY DEF TextLike
      <3> QED
        BY <1>1, <3>1 DEF ToolsSettled, Settled
    <2> HIDE DEF b
    <2> QED
      BY <2>1, <2>2 DEF ResultSound, EndOf, b
  <1>2. CASE Retold(b, num, e \in Failing)
    <2>1. num[1] = "id" => num = ToolId(e)
      BY DEF Numbered, EndOf
    <2>2. num[1] = "id" => num[2] = e
      BY <2>1 DEF ToolId
    <2> HIDE DEF b
    <2> QED
      BY <1>2, <2>2 DEF Retold, ResultSound, EndOf, b
  <1>3. \/ m \in DOMAIN view /\ i \in DOMAIN view[m] /\ b = view[m][i]
        \/ Retold(b, num, e \in Failing)
    BY DEF EndsIn, ResultAdded
  <1> QED
    BY <1>1, <1>2, <1>3

LEMMA AnswersKnown ==
    ASSUME NEW messages \in Seq(Messages)
    PROVE  KindsKnown(AnswersOf(messages))
  <1>1. \A m \in DOMAIN messages : messages[m] \in Messages
    BY ElementOfSeq
  <1>2. ASSUME NEW m \in DOMAIN messages, NEW i \in DOMAIN messages[m].blocks
        PROVE  messages[m].blocks[i].type \in TextLike \union {"tool_call", "tool_result"}
    <2>1. messages[m].blocks \in Seq(HistoryBlocks)
      BY <1>1 DEF Messages
    <2>2. messages[m].blocks[i] \in HistoryBlocks
      BY <2>1, ElementOfSeq
    <2> QED
      BY <2>2 DEF HistoryBlocks
  <1> QED
    BY <1>2 DEF KindsKnown, AnswersOf

LEMMA AnswersIdentified ==
    ASSUME NEW messages \in Seq(Messages), HasAssistant(messages),
           NEW calls, ResultsSound(AnswersOf(messages), calls)
    PROVE  Last(messages) \in Messages /\ Identified(Last(messages).blocks)
  <1>1. Last(messages) \in Messages
    <2>1. messages # <<>>
      BY DEF HasAssistant
    <2>2. Len(messages) \in DOMAIN messages
      BY <2>1, EmptySeq, LenProperties
    <2> QED
      BY <2>2, ElementOfSeq DEF Last
  <1>2. /\ Len(messages) \in DOMAIN AnswersOf(messages)
        /\ AnswersOf(messages)[Len(messages)] = Last(messages).blocks
    BY LastAnswer
  <1> QED
    BY <1>1, <1>2 DEF Identified, ResultsSound, ResultSound

(* The messages with the result of execution e *)
WithResult(ended, messages, calls, e, index) ==
    ended = NormalizeMerging(messages, ResultEntry(calls[e].tool, e, e \in Failing), index)

LEMMA EndTurn ==
    ASSUME NEW p, NEW w, NEW calls, NEW later, NEW e, ToolStep(p, w, calls, later, e),
           EndOf(calls, later, e), later[e].tool # None => EndedIn(w, e),
           NEW messages, NEW last, TurnSound(p.blocks, messages, <<>>, calls, last),
           CallsListed(messages, calls), NEW index \in Nat, NEW ended,
           WithResult(ended, messages, calls, e, index)
    PROVE  TurnSound(w.blocks, ended, <<>>, later, last) /\ CallsListed(ended, later)
  <1> DEFINE old == AnswersOf(messages)
             new == AnswersOf(ended)
             num == Numbered(calls[e].tool, index)
             n == Len(messages)
             error == e \in Failing
             entry == ResultEntry(calls[e].tool, e, error)
             message == AppendToolResult(Last(messages), entry, index)
  <1>1. /\ Spoken(One(p.blocks)) /\ Spoken(old) /\ Spoken(One(<<>>))
        /\ ToolsSettled(One(p.blocks), calls) /\ ToolsSettled(old, calls)
        /\ messages \in Seq(Messages) /\ ResultsSound(old, calls)
        /\ \A type \in TextLike :
              OrderSound(Reading(One(p.blocks), type), Reading(old, type), {}, calls, last)
    BY NothingRead DEF TurnSound
  <1>2. /\ e \in DOMAIN calls /\ e \in Nat /\ DOMAIN calls \subseteq Nat
        /\ DOMAIN later = DOMAIN calls
        /\ calls[e].tool \in ToolIds \union {None} /\ calls[e].tool \in {None, ToolId(e)}
        /\ later[e].tool = calls[e].tool /\ ToolId(e) # None
        /\ calls[e].state = "running" /\ later[e].state = "ended"
        /\ \A d \in DOMAIN calls : d # e => later[d] = calls[d]
    <2>1. e \in Nat /\ calls[e].tool \in {None, ToolId(e)}
      BY DEF EndOf
    <2>2. ToolId(e) # None /\ ToolId(e) \in ToolIds
      BY <2>1, ToolIdsDiffer DEF ToolId, ToolIds
    <2> QED
      BY <2>1, <2>2 DEF EndOf
  <1>3. HasAssistant(messages)
    BY DEF CallsListed
  <1>4. ended = WithLast(messages, message)
    <2>1. entry.role = "toolResult"
      BY DEF ResultEntry
    <2> HIDE DEF entry
    <2> QED
      BY <1>3, <2>1 DEF NormalizeMerging, WithResult, entry
  <1>5. /\ message \in Messages /\ message.role = "assistant"
        /\ ResultAdded(Last(messages).blocks, message.blocks, num, e, error)
    <2>1. Last(messages) \in Messages /\ Identified(Last(messages).blocks)
      BY <1>1, <1>3, AnswersIdentified
    <2>2. Last(messages).role = "assistant"
      BY <1>3 DEF HasAssistant
    <2>3. error \in BOOLEAN
      OBVIOUS
    <2> HIDE DEF error
    <2> QED
      BY <1>2, <2>1, <2>2, <2>3, ResultAppended
  <1> HIDE DEF message, entry
  <1>6. /\ ended \in Seq(Messages) /\ HasAssistant(ended) /\ Last(ended) = message
        /\ EndsIn(old, new, n, num, e, error)
    BY <1>1, <1>3, <1>4, <1>5, ResultReplaces
  <1>7. n \in DOMAIN old /\ old[n] = Last(messages).blocks
    BY <1>1, <1>3, LastAnswer
  <1>8. calls[e].tool # None => num = ToolId(e) /\ OnlyCall(old, n, num)
    <2> SUFFICES ASSUME calls[e].tool # None
                 PROVE  num = ToolId(e) /\ OnlyCall(old, n, num)
      OBVIOUS
    <2>1. num = ToolId(e) /\ calls[e].tool = ToolId(e)
      BY <1>2 DEF Numbered
    <2>2. CallBlocks(old[n], ToolId(e)) # {}
      BY <1>2, <1>7, <2>1 DEF CallsListed
    <2>3. "text" \in TextLike
      BY DEF TextLike
    <2> HIDE DEF old, num, n
    <2>4. Definite(Reading(old, "text"))
      <3>1. Written(old)
        BY <1>1, AnswersWritten DEF old
      <3> QED
        BY <1>1, <1>2, <2>3, <3>1, WrittenIsRead
    <2>5. InOrder(Reading(old, "text"))
      BY <1>1, <2>3 DEF OrderSound
    <2> QED
      BY <1>1, <1>2, <1>7, <2>1, <2>2, <2>3, <2>4, <2>5, CalledOnce
  <1>9. num[1] = "id" => OnlyCall(old, n, num)
    BY <1>8 DEF Numbered
  <1>10. KindsKnown(old)
    BY <1>1, AnswersKnown
  <1> HIDE DEF old, new, num, n
  <1>11. \A type \in TextLike : Reading(new, type) = Reading(old, type)
    BY <1>6, <1>9, EndReadsSame
  <1>12. Spoken(new)
    BY <1>1, <1>6, EndSpoken
  <1>13. ToolsSettled(new, later)
    BY <1>1, <1>6, <1>8, <1>10, EndSettled DEF num
  <1>14. ResultsSound(new, later)
    BY <1>1, <1>6, EndResults DEF num
  <1>15. Spoken(One(w.blocks)) /\ ToolsSettled(One(w.blocks), later)
    BY <1>1, <1>2, StepSpoken, StepSettled
  <1>16. ASSUME NEW type \in TextLike
         PROVE  OrderSound(Reading(One(w.blocks), type), Reading(new, type), {}, later, last)
    <2>1. OrderSound(Reading(One(w.blocks), type), Reading(old, type), {}, later, last)
      BY <1>1, <1>2, StepOrder
    <2> QED
      BY <1>11, <2>1
  <1>17. CallsListed(ended, later)
    <2> SUFFICES ASSUME NEW d \in DOMAIN later, later[d].tool # None, later[d].state # "ended"
                 PROVE  CallBlocks(Last(ended).blocks, later[d].tool) # {}
      BY <1>6 DEF CallsListed
    <2>1. d \in DOMAIN calls /\ later[d] = calls[d]
      BY <1>2
    <2>2. CallBlocks(Last(messages).blocks, calls[d].tool) # {}
      BY <2>1 DEF CallsListed
    <2>3. \A i \in DOMAIN Last(messages).blocks :
             /\ i \in DOMAIN message.blocks
             /\ message.blocks[i].type = Last(messages).blocks[i].type
             /\ message.blocks[i].tool = Last(messages).blocks[i].tool
      BY <1>5 DEF ResultAdded
    <2> QED
      BY <1>6, <2>1, <2>2, <2>3 DEF CallBlocks
  <1> QED
    BY <1>1, <1>6, <1>12, <1>13, <1>14, <1>15, <1>16, <1>17, NothingRead DEF TurnSound, new

LEMMA ToolEndReads ==
    ASSUME LiveInv, ReadInv, NEW e \in DOMAIN tools, ToolEnd(e)
    PROVE  ReadInv'
  <1> DEFINE messages == NormalizeMessages(entries)
             entry == ResultEntry(tools[e].tool, e, e \in Failing)
             ended == NormalizeMerging(messages, entry, Len(entries))
  <1>1. LiveInv' /\ Moved(e) /\ Ended(e)' /\ StepOf(e) /\ tools'[e].state = "ended"
    BY ToolEndKeeps
  <1>2. /\ phase = "tools" /\ phase' = "tools" /\ parts' = parts /\ deltas' = deltas
        /\ DOMAIN tools' = DOMAIN tools
    BY <1>1 DEF StepOf
  <1>3. tools[e].state = "running" /\ entries' = Append(entries, entry)
    BY DEF ToolEnd
  <1>4. /\ parts \in Seq(Parts) /\ parts = <<>> /\ entries \in Seq(Entries)
        /\ CallsListed(messages, tools) /\ live.id > 0 /\ (~live.open => seen = NoMessage)
        /\ TurnSound(live.blocks, messages, <<>>, tools, deltas)
    <2>1. parts = <<>>
      BY <1>2 DEF ReadInv
    <2> QED
      BY <1>2, <2>1 DEF ReadInv
  <1>5. ToolStep(live, live', tools, tools', e)
    BY <1>1, StepIs
  <1>6. EndOf(tools, tools', e)
    BY <1>3, <1>1, <1>5 DEF EndOf, ToolStep
  <1>7. tools'[e].tool # None => EndedIn(live', e)
    BY <1>1 DEF Ended, EndedIn
  <1>8. Len(entries) \in Nat /\ entry \in Entries
    <2>1. tools[e].tool \in {None, ToolId(e)} /\ ToolId(e) \in ToolIds /\ e \in Nat
      BY InvariantTyped
    <2> QED
      BY <1>4, <2>1, LenProperties DEF ResultEntry, Entries
  <1>9. entries' \in Seq(Entries) /\ NormalizeMessages(entries') = ended
    <2>1. NormalizeMessages(Append(entries, entry)) = ended
      BY <1>4, NormalizeMore
    <2>2. Append(entries, entry) \in Seq(Entries)
      BY <1>4, <1>8, AppendProperties
    <2> QED
      BY <1>3, <2>1, <2>2
  <1>10. TurnSound(live'.blocks, ended, <<>>, tools', deltas) /\ CallsListed(ended, tools')
    <2>1. Len(entries) \in Nat /\ WithResult(ended, messages, tools, e, Len(entries))
      BY <1>8 DEF WithResult
    <2> HIDE DEF messages, ended, entry
    <2> QED
      BY <1>4, <1>5, <1>6, <1>7, <2>1, EndTurn
  <1>11. live'.id > 0 /\ (~live'.open => seen' = NoMessage)
    BY <1>1, <1>4 DEF Moved
  <1> HIDE DEF ended, messages
  <1> QED
    BY <1>2, <1>4, <1>9, <1>10, <1>11 DEF ReadInv, HistoryShowsTheTurn

-------------------------------------------------------------------------------
(* The turn ends *)

LEMMA SettledTellable ==
    ASSUME NEW view, KindsKnown(view), Spoken(view), NEW calls, ToolsSettled(view, calls),
           \A e \in DOMAIN calls : calls[e].state = "ended",
           NEW m \in DOMAIN view, \E n \in Nat : DOMAIN view[m] = 1..n
    PROVE  Tellable(view[m])
  <1>1. ASSUME NEW i \in DOMAIN view[m]
        PROVE  /\ view[m][i].type \in TextLike \union {"tool_call", "tool_result"}
               /\ view[m][i].type \in TextLike => view[m][i].content \in Seq(Nat \X (Nat \ {0}))
               /\ view[m][i].type \notin TextLike /\ view[m][i].tool[1] = "id" =>
                    Finished(view[m], view[m][i])
    <2>1. view[m][i].type \in TextLike \union {"tool_call", "tool_result"}
      BY DEF KindsKnown
    <2>2. view[m][i].type \in TextLike => view[m][i].content \in Seq(Nat \X (Nat \ {0}))
      BY DEF Spoken
    <2>3. ASSUME view[m][i].type \notin TextLike, view[m][i].tool[1] = "id"
          PROVE  Finished(view[m], view[m][i])
      <3>1. Settled(view[m], view[m][i], calls)
        BY <2>3 DEF ToolsSettled
      <3> QED
        BY <3>1 DEF Settled, Finished
    <2> QED
      BY <2>1, <2>2, <2>3
  <1> QED
    BY <1>1 DEF Tellable

(* Two views that tell of the same, in order, are read alike. *)
LEMMA ToldAlike ==
    ASSUME NEW reading, NEW other, Definite(reading), Definite(other),
           InOrder(reading), InOrder(other), Read(reading) = Read(other),
           NEW view, NEW shown, NEW type,
           TellsOf(view, reading, type), TellsOf(shown, other, type)
    PROVE  ReadAlike(view, shown, type)
  <1>1. /\ Places(view, type) = {s[1] : s \in reading}
        /\ Places(shown, type) = {s[1] : s \in other}
    BY DEF TellsOf
  <1>2. \A s \in reading, t \in other :
          s[2] = t[2] => ToldAt(view, type, s[1]) = ToldAt(shown, type, t[1])
    BY DEF TellsOf
  <1> QED
    BY <1>1, <1>2, ReadTheSame

LEMMA FlushedTo ==
    ASSUME LiveInv, Publish(Flushed(Begun)), ~missed'
    PROVE  IF live.open THEN seen' = [id |-> live.id, blocks |-> live.blocks]
           ELSE seen' = seen
  <1>1. /\ Begun.open = live.open /\ Begun.shown = seen /\ Begun.sent = "nothing"
        /\ Begun.id = live.id /\ Begun.blocks = live.blocks
    BY DEF Begun
  <1>2. CASE ~live.open
    <2>1. Flushed(Begun) = Begun
      BY <1>1, <1>2 DEF Flushed
    <2> QED
      BY <1>1, <1>2, <2>1 DEF Publish
  <1>3. CASE live.open
    <2> DEFINE event == [type |-> "message_upsert", id |-> live.id, blocks |-> live.blocks]
               t == Emit(Begun, event)
    <2>1. Flushed(Begun) = t
      BY <1>1, <1>3 DEF Flushed
    <2>2. Folded(seen, event) = [id |-> live.id, blocks |-> live.blocks]
      <3>1. seen \in [id : Nat, blocks : Seq(Blocks)]
        BY DEF LiveInv, TypeOK
      <3> QED
        BY <3>1 DEF Folded
    <2>3. t.shown = Folded(seen, event) /\ t.sent = "whole"
      BY DEF Emit, Begun
    <2> HIDE DEF t, event
    <2> QED
      BY <1>3, <2>1, <2>2, <2>3 DEF Publish
  <1> QED
    BY <1>2, <1>3

(* The history is rendered as it is read. *)
LEMMA HistoryTells ==
    ASSUME NEW messages \in Seq(Messages), Spoken(AnswersOf(messages)),
           NEW calls, ToolsSettled(AnswersOf(messages), calls),
           \A e \in DOMAIN calls : calls[e].state = "ended", NEW type \in TextLike,
           NEW rendered,
           rendered = [m \in DOMAIN AnswersOf(messages) |-> RenderedBlocks(AnswersOf(messages)[m])]
    PROVE  TellsOf(rendered, Reading(AnswersOf(messages), type), type)
  <1> DEFINE view == AnswersOf(messages)
  <1>1. KindsKnown(view)
    BY AnswersKnown
  <1>2. ASSUME NEW m \in DOMAIN view
        PROVE  \E n \in Nat : DOMAIN view[m] = 1..n
    <2>1. m \in DOMAIN messages /\ view[m] = messages[m].blocks
      BY DEF AnswersOf
    <2>2. messages[m] \in Messages
      BY <2>1, ElementOfSeq
    <2>3. messages[m].blocks \in Seq(HistoryBlocks)
      BY <2>2 DEF Messages
    <2> HIDE DEF view
    <2> QED
      BY <2>1, <2>3, LenProperties
  <1> HIDE DEF view
  <1>3. \A m \in DOMAIN view : Tellable(view[m])
    BY <1>1, <1>2, SettledTellable DEF view
  <1> QED
    BY <1>3, ToldWhereRead DEF view

(* So is the live message. *)
LEMMA LiveTells ==
    ASSUME NEW blocks \in Seq(Blocks), Spoken(One(blocks)),
           NEW calls, ToolsSettled(One(blocks), calls),
           \A e \in DOMAIN calls : calls[e].state = "ended", NEW type \in TextLike,
           NEW rendered,
           IF blocks = <<>> THEN DOMAIN rendered = {} \/ rendered = One(RenderedBlocks(blocks))
           ELSE rendered = One(RenderedBlocks(blocks))
    PROVE  TellsOf(rendered, Reading(One(blocks), type), type)
  <1> DEFINE view == One(blocks)
  <1>1. CASE rendered = One(RenderedBlocks(blocks))
    <2>1. KindsKnown(view)
      <3>1. \A i \in DOMAIN blocks : blocks[i] \in Blocks
        BY ElementOfSeq
      <3> QED
        BY <3>1 DEF KindsKnown, One, Blocks
    <2>2. DOMAIN view = {1} /\ view[1] = blocks
      BY DEF One
    <2>3. \E n \in Nat : DOMAIN view[1] = 1..n
      BY <2>2, LenProperties
    <2>4. rendered = [m \in DOMAIN view |-> RenderedBlocks(view[m])]
      BY <1>1, <2>2 DEF One
    <2> HIDE DEF view
    <2>5. Tellable(view[1])
      BY <2>1, <2>2, <2>3, SettledTellable DEF view
    <2>6. \A m \in DOMAIN view : Tellable(view[m])
      BY <2>2, <2>5
    <2> QED
      BY <2>4, <2>6, ToldWhereRead DEF view
  <1>2. CASE blocks = <<>> /\ DOMAIN rendered = {}
    <2>1. Reading(One(blocks), type) = {}
      BY <1>2, NothingRead
    <2>2. Places(rendered, type) = {}
      BY <1>2 DEF Places
    <2> QED
      BY <2>1, <2>2 DEF TellsOf
  <1> QED
    BY <1>1, <1>2

(* A turn that ended reads in the history as it was made. *)
LEMMA TurnReadAlike ==
    ASSUME NEW blocks \in Seq(Blocks), Written(One(blocks)), NEW messages,
           NEW calls, DOMAIN calls \subseteq Nat, NEW last,
           TurnSound(blocks, messages, <<>>, calls, last),
           \A e \in DOMAIN calls : calls[e].state = "ended", NEW type \in TextLike,
           NEW shown,
           IF blocks = <<>> THEN DOMAIN shown = {} \/ shown = One(RenderedBlocks(blocks))
           ELSE shown = One(RenderedBlocks(blocks)),
           NEW told,
           told = [m \in DOMAIN AnswersOf(messages) |-> RenderedBlocks(AnswersOf(messages)[m])]
    PROVE  ReadAlike(shown, told, type)
  <1> DEFINE sr == Reading(One(blocks), type)
             tr == Reading(AnswersOf(messages), type)
  <1>1. /\ Spoken(One(blocks)) /\ Spoken(AnswersOf(messages))
        /\ ToolsSettled(One(blocks), calls) /\ ToolsSettled(AnswersOf(messages), calls)
        /\ messages \in Seq(Messages)
    BY DEF TurnSound
  <1>2. ReadSoFar(sr, tr, Reading(One(<<>>), type), calls, last)
    <2>1. <<>> \in Seq(Parts)
      OBVIOUS
    <2> QED
      BY <2>1, TurnRead
  <1>3. TellsOf(shown, sr, type)
    BY <1>1, LiveTells
  <1>4. TellsOf(told, tr, type)
    BY <1>1, HistoryTells
  <1>5. Read(sr) = Read(tr)
    <2>1. Read(Reading(One(<<>>), type)) = {} /\ Asked(calls) = {}
      BY NothingRead DEF Asked
    <2> QED
      BY <1>2, <2>1 DEF ReadSoFar, OrderSound
  <1> HIDE DEF sr, tr
  <1>6. Definite(sr) /\ Definite(tr) /\ InOrder(sr) /\ InOrder(tr)
    BY <1>2 DEF ReadSoFar, OrderSound
  <1> QED
    BY <1>3, <1>4, <1>5, <1>6, ToldAlike

LEMMA AgentEndReads ==
    ASSUME LiveInv, ReadInv, AgentEnd
    PROVE  ReadInv'
  <1>1. /\ phase # "idle" /\ phase' = "idle" /\ parts' = <<>> /\ entries' = entries
        /\ cut' = ~(phase = "tools" /\ \A i \in DOMAIN tools : tools[i].state = "ended")
        /\ live' = NewLive(live.id + 1, live.made) /\ Publish(Flushed(Begun))
    BY DEF AgentEnd, TurnOver
  <1>2. live \in Projections /\ DOMAIN tools \subseteq Nat /\ (~live.open => live.blocks = <<>>)
    BY InvariantTyped
  <1>3. entries \in Seq(Entries) /\ live.id > 0 /\ (~live.open => seen = NoMessage)
    BY <1>1 DEF ReadInv
  <1>4. live.id \in Nat /\ live.blocks \in Seq(Blocks)
    BY <1>2 DEF Projections
  <1>5. live'.id = live.id + 1
    BY <1>1 DEF NewLive
  <1>6. ASSUME ~cut', ~missed', NEW type \in TextLike
        PROVE  ReadAlike(InLiveMessage', InHistory', type)
    <2> DEFINE messages == NormalizeMessages(entries)
               told == [m \in DOMAIN AnswersOf(messages) |-> RenderedBlocks(AnswersOf(messages)[m])]
    <2>1. phase = "tools" /\ \A i \in DOMAIN tools : tools[i].state = "ended"
      BY <1>1, <1>6
    <2>2. TurnSound(live.blocks, messages, <<>>, tools, deltas)
      <3>1. parts = <<>>
        BY <2>1 DEF ReadInv
      <3> QED
        BY <2>1, <3>1 DEF ReadInv
    <2>3. InHistory' = told
      BY <1>1 DEF InHistory, Answers
    <2>4. IF live.open THEN seen' = [id |-> live.id, blocks |-> live.blocks] ELSE seen' = seen
      BY <1>1, <1>6, FlushedTo
    <2>5. InLiveMessage'
            = [m \in IF seen'.id = live.id THEN {1} ELSE {} |-> RenderedBlocks(seen'.blocks)]
      BY <1>4, <1>5 DEF InLiveMessage
    <2>6. IF live.blocks = <<>>
          THEN DOMAIN InLiveMessage' = {} \/ InLiveMessage' = One(RenderedBlocks(live.blocks))
          ELSE InLiveMessage' = One(RenderedBlocks(live.blocks))
      <3>1. CASE live.open
        <4>1. seen'.id = live.id /\ seen'.blocks = live.blocks
          BY <2>4, <3>1
        <4> QED
          BY <2>5, <4>1 DEF One
      <3>2. CASE ~live.open
        <4>1. seen' = NoMessage /\ live.blocks = <<>>
          BY <1>2, <1>3, <2>4, <3>2
        <4>2. seen'.id # live.id
          BY <1>3, <4>1 DEF NoMessage
        <4> QED
          BY <2>5, <4>1, <4>2
      <3> QED
        BY <3>1, <3>2
    <2>7. Written(One(live.blocks))
      BY <1>2, LiveWritten
    <2> HIDE DEF messages
    <2> QED
      BY <1>2, <1>4, <2>1, <2>2, <2>3, <2>6, <2>7, TurnReadAlike
  <1>7. HistoryShowsTheTurn'
    BY <1>6 DEF HistoryShowsTheTurn
  <1>8. live'.id > 0 /\ <<>> \in Seq(Parts)
    BY <1>3, <1>4, <1>5
  <1> QED
    BY <1>1, <1>3, <1>7, <1>8 DEF ReadInv

-------------------------------------------------------------------------------
(* In every state *)

LEMMA InitReads ==
    ASSUME Init
    PROVE  ReadInv
  <1>1. <<>> \in Seq(Parts) /\ <<>> \in Seq(Entries)
    OBVIOUS
  <1>2. live.id = 1
    BY DEF Init, NewLive
  <1> QED
    BY <1>1, <1>2 DEF Init, ReadInv, HistoryShowsTheTurn

LEMMA StreamStepReads ==
    ASSUME ReadInv, Disconnect \/ Connect \/ UNCHANGED vars
    PROVE  ReadInv'
  <1>1. UNCHANGED <<sdk, live, seen, missed>>
    BY DEF Disconnect, Connect, vars, browser
  <1>2. UNCHANGED <<phase, turn, deltas, parts, tools, entries, cut, live, seen, missed>>
    BY <1>1 DEF sdk
  <1>3. HistoryShowsTheTurn'
    BY <1>2 DEF ReadInv, HistoryShowsTheTurn, InLiveMessage, InHistory, Answers
  <1> QED
    BY <1>2, <1>3 DEF ReadInv

(* What is read of a turn is kept in order: in the live message and in the   *)
(* history the same pieces of a text and the same calls, but for what is     *)
(* being said and the tools that did not start; and each tool with an id is  *)
(* told of as what it is, with its status once it ended.                     *)
THEOREM TurnIsRead == Spec => []ReadInv
  <1>1. Init => ReadInv
    BY InitReads
  <1>2. LiveInv /\ LiveInv' /\ ReadInv /\ [Next]_vars => ReadInv'
    <2> SUFFICES ASSUME LiveInv, ReadInv, [Next]_vars
                 PROVE  ReadInv'
      OBVIOUS
    <2>1. CASE MessageStart
      BY <2>1, MessageStartReads
    <2>2. ASSUME NEW type \in TextLike, Say(type)
          PROVE  ReadInv'
      <3>1. LiveInv' /\ live'.open /\ Said(type)
        BY <2>2, SayKeeps
      <3> QED
        BY <2>2, <3>1, SayReads
    <2>3. ASSUME NEW n \in 0..MaxTools, NEW ids \in [1..n -> BOOLEAN], MessageEnd(n, ids)
          PROVE  ReadInv'
      BY <2>3, MessageEndReads
    <2>4. ASSUME NEW e \in DOMAIN tools, ToolStart(e) \/ ToolUpdate(e) \/ ToolEnd(e)
          PROVE  ReadInv'
      BY <2>4, ToolStartReads, ToolUpdateReads, ToolEndReads
    <2>5. CASE AgentEnd
      BY <2>5, AgentEndReads
    <2>6. CASE Disconnect \/ Connect \/ UNCHANGED vars
      BY <2>6, StreamStepReads
    <2> QED
      BY <2>1, <2>2, <2>3, <2>4, <2>5, <2>6 DEF Next
  <1> QED
    BY <1>1, <1>2, LiveInvariant, PTL DEF Spec

(* A turn that was not aborted reads in the history as it was shown while it *)
(* was made, to a browser that missed nothing of it: the same text and the   *)
(* same thinking, in the same places among the same tools with an id, each   *)
(* with the same status and the same result, however many messages it took   *)
(* and in whatever order its tools ended.                                    *)
THEOREM HistoryReadsAsShown == Spec => []HistoryShowsTheTurn
  <1>1. ReadInv => HistoryShowsTheTurn
    BY DEF ReadInv
  <1> QED
    BY <1>1, TurnIsRead, PTL
===============================================================================
