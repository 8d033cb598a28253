# Agentaz in TLA+

Agentaz is a web front end for the Pi coding agent.  A Deno server
(`packages/api`) keeps a small working set of agent sessions loaded, each over
one Pi SDK session and one JSONL file; browsers (`packages/web-ui`) follow them
over one server-sent event stream each and act on them over HTTP.  This
directory models the parts of the program in which several actors meet, checks
them with TLC on small instances, and proves their safety properties with
TLAPS for every value of the constants.  What must eventually happen is TLC's alone, but of
several such properties the safety they rest on is proved as well.

Read the modules in this order: `SessionRegistry`, `SessionWorkspace`,
`ClientPresence`, `AgentRuntime`, `SessionController`, `PendingSettings`,
`Approvals`, `Normalization`, `LiveTurn`, `Transcripts`, `SessionSwitch`,
`AdminLogin`, `PermissionSettings`; then the `MC*` modules with the `.cfg`
files, and the `*Proofs` modules.  Paths below are
relative to the repository's root; `api/` stands for `packages/api/src/` and `web/` for
`packages/web-ui/src/`.

## 1. Inventory

The server is one JavaScript event loop: a handler runs without interruption
until it awaits, and anything may happen during an await.  Nothing is locked,
so that all that was read before an await may be stale after it.  Requests of
browsers, settled SDK calls, SDK events, timers and closing streams are the
actors.

| Component | State | Operations | What makes it correct |
|---|---|---|---|
| Session workspace, `api/pi/session-workspace.ts` | Map of owners, reserved sessions, revision generation, mutation tail, session files | create, open, rename, soft delete, fork, revert, shutdown; routing of prompts, aborts and answers to owners; cached list of session files | one usable owner per file, bounded working set, no gap when owners are exchanged, busy or watched sessions stay, all-or-nothing deletes and forks, revisions never fall, the queue never stops |
| Session controller, `api/pi/session-controller.ts` | lazily created SDK session, shared initialisation, disposal flags, subscription, deferred settings, history cache and revision, live turn | initialise, prompt, steer, follow up, abort, compact, settings, dispose, project SDK events | one SDK session, none left behind, events of a turn in order and complete, callers settle |
| Client presence, `api/runtime/client-presence.ts` | focus of each client, last focus, counted control leases | attach, detach, focus, acquire, release, remove session | mutual exclusion of mutating clients, leases end with the requests that took them |
| Runtime, bus and stream hub, `api/runtime/*.ts` | streams, subscription, heartbeat | open, close, broadcast, snapshots, hello | browsers come to agree with the server |
| Routes, `api/routes/agent.ts`, `api/http/agent.ts` | requests in flight | one handler per route, lease around the mutating ones | leases released on every path, no focus on sessions that are gone |
| Extension UI context, `api/extensions/ui-context.ts` | pending prompts with timers, widgets | select, confirm, input, resolve, time out, cancel all | each promise is resolved once and never allowed by default |
| Browser, `web/composables/*.ts`, `web/utils/*.ts` | sessions, transcripts with their revisions, dialogs, drafts, focus intents | handle events, fetch history, submit, answer, switch sessions | the transcript agrees with the branch, dialogs agree with what is pending, the composer is never stuck |
| Permission configuration, `api/extensions/permission-config.ts`, `web/components/PermissionSettingsDialog.vue` | a JSON file; the dialog's response, draft and flags | load, save, reset, edit by hand | readers see a whole file, the dialog shows it and is never blocked |
| Required packages, `api/pi/required-packages.ts` | the settings file it shares with the SDK | read, change, write | updates are not lost |
| Login, `api/auth/*.ts`, `web/views/LoginView.vue`, `web/app.vue` | failures, attempt tail, secret; the page shown | sign in, delay, expire, restart | attempts are serialised, delayed as earned, and answered |
| Normalization, `api/pi/session-normalization.ts`, `web/components/ChatMessage.vue` | none | persisted entries to messages, messages to rendered blocks | a turn reads in the history as it was shown live |

Interactions: routes call presence for leases, then the workspace; the
workspace owns controllers and publishes `session_removed`, `state_changed` and
server events on the bus; the bus calls presence and the stream hub
synchronously; controllers emit events through a host object of the workspace;
extensions call the UI context of their controller; the hub asks presence and
workspace for snapshots.  Browsers meet only at the server.

The hard behaviours are interleavings at awaits (capacity and eviction, shared
initialisation, disposal), failures at every step of a file or SDK operation
and of its rollback, three channels of different order to each browser (stream,
HTTP replies, reconnection), and counters and leases that outlive their cause.
`PROJECT.json` lists the hazards at their lines.

## 2. Modules

### SessionRegistry and SessionWorkspace

`SessionRegistry` is the promise: a session has at most one owner; owners change
by admission, exchange, replacement and removal, each one step; a retired
controller never comes back.  `SessionWorkspace` has the mutations of
`PiSessionWorkspace`.  `queue` is `lifecycleMutationTail`; `req[r]` is a mutation
with the local variables it keeps across its awaits (`victim`, `old`, `held`);
its phase says which await it is in.  There is one action per piece of code
between two awaits, with both outcomes of the awaited call: for `open`,
`Refused`/`Validated`, then `Opened` (which registers, `Commit`, or finds its
candidate gone and goes to `discarding`) and so on.  `Environment` is everything
that is no mutation: prompts submitted and becoming visible, turn progress,
focus, disposals that settle.  A controller's `work` distinguishes a prompt that
is accepted from one that `isBusy()` sees.  The eviction candidate may be any
eligible session, since the order of the Map is not kept.  Left out: the cached
list of files (`refreshPersistedSessionCache` is an await that may fail), the
form of arguments.

### ClientPresence and AgentRuntime

`ClientPresence` is passive: its operators are the methods of the class.
`AgentRuntime` composes it with event streams (`open`, its awaited refresh,
hello, disconnect), requests under `withRequestSessionControl`, the lifecycle
requests that focus a session after their await, and commits and deletions of
the workspace, reduced to the set of loaded sessions.  Publishing is synchronous,
so that one action holds all handlers of an event.  `told` is what a browser was
last told of each lease.

### SessionController

Operations (`prompt`, `plain`, `compact`) share `initPromise`; the initialising
operation passes `preparing`, `creating`, `binding`, `cleaning`, as
`initializeSession` does.  SDK sessions are numbered as they are created.
`dispose` runs at any time.  The awaited calls of the SDK and the extensions
succeed or fail.

### PendingSettings

The settings of one session and the browser that chooses them.  `pending` is
`pendingSettings`, taken out as a whole before `setModel` of the SDK is awaited
(`calls`), so that a user's choice, another turn's end and another application
meet it; a failed deferred model is put back by `PutBack`, a failed level by
`ApplyLevel`.  Choices are numbered as they are accepted, so that "newer" has a
meaning; what they choose is left out.  The browser's side is a status that says
the session is idle (`poke`), the question it makes the browser ask while a badge
is shown, and model states on their way back in no order.

### Approvals

The pending prompts of one UI context, their timers (`Lapse`), `cancelAll` by
abort, failed initialisation and disposal, browsers that connect, get a hello,
events and snapshots, show dialogs and answer over HTTP, and states that come as
replies of session operations in any order.  The kinds of prompts and answers are
left out, because a browser derives the kind from the prompt.  A controller
replaced by a revert is not an occasion of `Remove`, which models eviction and
deletion.

### Normalization and LiveTurn

`Normalization` has the pure functions from persisted entries to messages
(`NormalizeMessages`, with the pairing of tool results) and from a message to the
blocks a page renders (`RenderedBlocks`).  `LiveTurn` makes turns of the SDK: messages
of text and thinking that end with tool calls, with an id or without, executions that
start in order, run at once, stream and end in any order, an abort.  Every SDK
event goes through the controller's handler, an operator from the live projection
(`Begun`, of `live`) to the next; each event it emits is folded at once (`Emit`,
`Folded`) into what a browser makes of it, which `Publish` gives to a browser whose stream is
open as `seen`.  Nothing happens between the events of one handler, because it does not await.
Contents are sequences of numbered pieces, and `of` names the execution a block
tells of, which the code does not know: it is what `ToolsShownOnce` compares.
`HistoryShowsTheTurn` composes both modules.  What was shown live is compared with what
normalization makes of the entries of the turn, by what a reader is told and in which order:
there is a bijection between the places (message, block, position in the block) of the two
views that keeps what is told, the pieces of a text or of a thinking and the tools with an id
with their status and result, and keeps which is read earlier.  In which block a piece
stands may differ, as section 5 says.  `NormalizeMessages` is a recursive function, and
`RenderedBlocks` keeps the blocks that are shown at their places in the message, since a
reader tells places apart only by their order.

### Transcripts

One browser's transcript of one session.  The server side is the prompt turn and
history cache of the controller (`Start`, `Delta`, `AgentEnd`, `Complete`,
`Fail`, `ReadHistory`); `Ask` and `Answer` are the moments at which the SDK
persists entries, which no event announces.  The browser side is `sendPrompt`,
`handleEvent`, `refreshHistory` and the operators of `agentaz-transcript.ts`
(`Confirm`, `Merge`, `RemovePrompt`).  A message is a kind and a prompt: *local*
before the server announced it, *canonical* after `turn_started`, *live* for the
answer being streamed, *user* and *assistant* from a history.  Left out: blocks,
compaction, reverts, drafts, reloads of the page.

`TranscriptMatchesBranch` says of a settled transcript that what is confirmed is the branch,
and that of local messages there are left, of each text, no more than prompts of this browser
that were refused or not started.  It counts them because the browser knows a message by its
text only: of three prompts with one text the answer to the last confirms the first local
message, and what is left is the message of the prompt that was answered.

### SessionSwitch

Which session one browser shows.  `tasks` are the operations of the user from the
click to the last await, each with the nonce and the client id it began with;
`stream` are hellos and snapshots.  `Resolve` is `resolveActiveSessionFromState`,
where an intent meets the active session the server tells.  The server is reduced to
what its answers depend on.  `choice` is what the user chose last; `taken` says that a
step which by design moves the view without a switch of the user's came since (the
answer that creates a session for a draft, a fork, a route to the session that is
shown), and `ViewSettles` excepts those; section 5 tells what they do.

### AdminLogin and PermissionSettings

`AdminLogin` is `LoginBackoff` with the sign-in handler: attempts are in line
(`ahead` is the promise tail), each waits what its failures earned, in discrete time;
a restart forgets failures and, unless it is configured, the secret.
`PermissionSettings` extends it by the configuration file, the requests of one browser
with their cookies, the dialog, and the change between login page and workspace
(`applyAuthRoute`, `handleAuthExpired`), which forgets the dialog.  A save is two
steps, the temporary file and its renaming, and the server may stop between them.
`current` says that the last answer shown is of a request that was alone.

## 3. Runs

| Run | Instance | Question |
|---|---|---|
| `workspace_capacity` | 3 sessions, 2 places, 3 controllers, one mutation at a time of create, open, fork | Does the working set keep its bound, do evictions spare sessions in use, do forks leave files behind? |
| `workspace_ownership` | 2 sessions, 1 place, 3 controllers, every mutation that replaces or removes an owner | Is the registry implemented; do revisions rise; are deletes all-or-nothing? |
| `workspace_queue` | 1 session, 2 mutations queued, with fairness | Does every mutation settle after failed ones, without leaving reservations? |
| `runtime` | 3 sessions, 2 places, the local client and a browser, 2 requests | Leases, exclusion, focus, what browsers know |
| `controller` | 3 operations, 3 SDK sessions, with fairness | One SDK session, complete disposal, turns that end, calls that settle |
| `controller_orphan` | 1 operation, 1 SDK session | *violation*, see 5 |
| `settings` | 2 choices, 2 replies, with fairness | Is a choice ever lost or replaced by an older one, is what was deferred tried, does the badge go away? |
| `approvals` | 2 prompts, 1 browser, with fairness | Is a prompt resolved once and allowed only by a user, and do dialogs come to agree with what is pending? |
| `live_turn` | 2 turns of 3 messages, 2 deltas and 2 tools in all | Does the browser's live message stay in step, is each tool shown once, does the history show what was shown live? |
| `transcripts` | a prompt of the browser and one of another with the same text, 2 fetches, 1 event under way, with fairness | Does the transcript settle as the branch, never go back, and is the composer freed? |
| `session_switch` | 2 sessions, 1 to be created, 2 operations, 1 eviction, deletion or reconnection, with fairness | Does the view settle on the last choice, with its route, and leave sessions that are gone? |
| `permissions` | this browser and another client, 1 edit, 1 restart, expiry, edit by hand or login elsewhere, with fairness | Is the file whole, does the dialog show it and stay usable, are logins delayed as earned and answered? |

Every property has a *mutant*: a definition marked `fault` next to the one it
stands for, a plausible mistake that makes TLC report the property in the same
run.

**Bounds.**  Mutations of the workspace are serialised, so one running mutation
meets everything but the queue, and the queue needs two.  Two places and three
sessions are the least with a choice of candidates; one place makes every load an
eviction.  Three controllers let a session be opened, replaced and replaced
again; a mutation that needs a fourth is not started.  `MaxRevision` lets
revisions rise three times above zero.  In `runtime`, two requests of two clients
give a conflict on a lease and its reuse after a removal.  Three operations are an
initialiser, one that shares its fate, and one that starts anew; an SDK session for
each.  In `approvals`, `Room` only delays events that are repeated anyway (snapshots
and statuses), until streams are short again.  In `transcripts`, an event waits for
room in the stream, hence the server may be ahead of the browser by an event and by
any number of silent steps; two fetches are the least that overtake each other; with
two events of room the same properties hold on some 1.1 million states, and with one
prompt fewer on larger streams.  In `settings` two choices are the least of which one
waits, or is made, while the other is being applied; a reply more than one lets the newer
be overtaken.  In `live_turn` two tools can overlap and end in the other order, with ids,
without, or mixed, one of them fails, and three messages allow a turn of two, with a
steering message between them, before or after another turn.  In
`session_switch`, `Room` of two takes the hello and the snapshot of a new stream, two
operations overtake each other, and the one event is the eviction, deletion or
reconnection between them.  In `permissions` the other client's attempts make this
browser's wait, failures earn two different delays, time passes the idle reset, and one
event of each kind comes at every moment; `MaxOpens = 0` lets the dialog be opened any
number of times, but not while a request is under way (`PermissionsOverlap.cfg` does).
`Controller*.cfg`, `Transcripts.cfg`, `LiveTurn.cfg`, `Switch.cfg` and `Permissions*.cfg`
switch the deadlock check off: a disposed controller stops, and prompts, turns,
operations and failures are used up.

**Fairness.**  `FairSpec` assumes that calls of the SDK, the file system and the
extensions settle one way or the other, and no more: the workspace awaits them
inside its queue without a timeout, so that a call that hangs does stop it.  For
browsers, responses and the events of an open stream arrive, and the heartbeat
repeats snapshots every 15 seconds while a client is connected
(`api/runtime/sse-hub.ts:245`); nothing is assumed of users, of reconnections, or
of prompts being answered.  Timers of prompts may be long, so that none is assumed
to fire.  In `Transcripts` one fairness condition covers all
prompts and one all fetches, which is less than the code gives; in `SessionSwitch` one
covers all operations under way, and in `PermissionSettings` one all requests.
`PendingSettings` assumes that turns end, queues drain and calls of the SDK settle, and
makes whether turns come and go, or the session is idle from time to time, the premise of
its liveness.  `AdminLogin` assumes that clocks go on and that passwords are compared.

**Configurations outside the list of runs.**  `WorkspaceInterrupts.cfg`,
`RuntimeLeaseReuse.cfg`, `ApprovalsDisconnect.cfg`, `ForkPulledBack.cfg` and
`SettingsOvertaken.cfg` end with the counterexamples of section 5.
`ApprovalsBrowsers.cfg` checks the safety of prompts with two browsers that answer
at once (649 thousand states), and `PermissionsOverlap.cfg` that of the configuration with
a dialog opened while requests are under way (2.3 million); both also check the type
invariants.  The others' type invariants, where no theorem states them, are checked by
putting `TypeOK` among the invariants of a configuration.  So are the inductive invariants
`RuntimeInv` (`Runtime.cfg`), `HistoryInv` and `ProgressInv` (`Workspace*.cfg`) and
`TranscriptInv` (`Transcripts.cfg`), `LiveInv` and `ReadInv` (`LiveTurn.cfg`) and `SwitchInv` (`Switch.cfg`,
and there `SnapshotsShowChoice` as a PROPERTY), and `PromptsSettle` in `Approvals.cfg`,
which says that a prompt resolves if its timer fires.  The safety halves of the liveness
properties, which section 4 proves, are checked the same way: `TailMovesOn`
(`Workspace*.cfg`), `BusyWithOperations` (`Controller.cfg`), `OnlyFailedWaitWhileIdle`
(`Settings.cfg`), `BlockedByOwnPrompt` (`Transcripts.cfg`), `OneHasItsTurn` and
`BlockedByRequests` (`Permissions*.cfg`), and `ShownWereAsked` with the PROPERTY
`OnlyLateRepliesHide` (`Approvals.cfg`, `ApprovalsBrowsers.cfg`).

## 4. Theorems

`tlapm` checks these for every value of the constants that satisfies the `ASSUME`s
of the modules.

*SessionWorkspaceProofs.*  `WorkspaceInv` is inductive: types, `LiveIffOwner`, the
queue discipline (`OneMutationRuns`: only the head of the queue is under way, the
others hold nothing), and `Remembers`, which says of each phase what the mutation
established before its await and is still true after it, for example that an
eviction candidate still owns the session reserved for it, and that the owner being
replaced is still registered.  It is needed because `LiveIffOwner` alone does not
survive a commit: only the discipline shows that nobody else unregistered the
candidate.  `TypeCorrect`, `OwnershipSound` and `ReservationsReleased` follow.  The
proof has a lemma per action; `SettleKeeps`, `GotoKeeps` and `ControllersKept`
carry what most of them share.

The other theorems of this module build on `WorkspaceInv`.

- *Capacity.*  `CapacityRespected` is not inductive: a soft delete takes the owner out of the
  Map before its disposal is awaited, and when that fails brings the session back without
  asking whether there is room.  `PlacesBounded` therefore counts the session a delete may
  still bring back together with the loaded ones.  Since only the head of the queue is under
  way, nothing else is registered meanwhile, and every action but a commit keeps the counted
  set or shrinks it; a commit puts one owner in and, unless there was room, its candidate out,
  which by `Remembers` is still an owner.
- *Refinement.*  `RegistryImplemented`: every step is a step of `SessionRegistry` or leaves
  `sessions` and the retired controllers alone.  That an action admits, exchanges, replaces or
  removes needs both invariants: the promise has the bound in its guards, and the controller a
  mutation brings in is unborn or its own (`Remembers`).  `OwnershipHasNoGap` follows: no
  session loses its owner in a step of a replacement.
- *Revisions.*  `HistoryInv`: what browsers have seen is at most the revision of the owner
  (`HistoryKept`), of the generation when there is none, and of the revision a transition
  reserved for the owner to come (`ReservedRevisionsKept`); an owner reports no more than was
  seen (`OwnersReport`).  `HistoryIsKept` is then that `seen` never falls, for sessions whose
  old owner did not go on with a turn in a transition.
- *Evictions.*  `EvictionSpares`: a session that loses its owner to make room is neither busy
  nor protected at that moment, because the candidate is asked again in the step that exchanges
  it (`Commit`), and no other action of a load or fork takes an owner out.
- *Deletes and forks.*  `ProgressInv` says how far they have come from the await they are at:
  a registered fork stays registered until its list is read, the file of a delete is gone from
  `burying` on, a session about to be registered still has its file (`FileReady`), and no owner
  has a deleted file (`OwnersKeepFiles`).  Hence `DeletesAllOrNothing` and
  `ForksAllOrNothing`, for every outcome of every await.
- *Progress.*  `NoMutationLeftOut`: a queued mutation has exactly one place in the tail, one that
  awaits disposals awaits only those that have begun (`DisposalsBegun`), and the phases of an
  exchange are those of kinds that know how to leave them (`KnowsItsWay`).  With the fairness of
  the awaited calls this is why `MutationsSettle` holds.

*AgentRuntimeProofs.*  `ExclusiveUnlessRevoked` is not inductive, because a lease is a count:
one release too many would free it while a request is under way.  `HoldsAccounted` says that a
client whose lease was not taken away has as many holds as requests under way, and
`LeaseNeverOutlivesRequests` that a lease has an owner only while there are such requests; the
lemmas about `HoldersOf` show that a step changes one of these sets by one request.
`BrowsersKnowOwners` needs that the bus is subscribed to while a stream is open
(`SubscribedWhenOpen`), `FocusInWorkingSet` that a request which will focus a session knows it
(`RequestsKnowSessions`).  From `RuntimeInv`: `BrowsersAreTold`, `LeasesEnd`, `LeasesExclude`
and `FocusFollowsRemovals`, for any number of clients, requests and sessions.

*TranscriptsProofs.*  `TranscriptInv` follows a history from the branch to the page:

- `ServerSound`: what is cached has the revision of now, and is the branch unless a prompt that
  is being answered has added to it.
- `ResponsesSound`, `BrowserSound`: of two histories under way the later one has no less of the
  branch, and what is shown is a part of the branch that no history the browser may still take
  is short of.  This gives `HistoryOnlyGrows`.
- `StreamSound`: the events of a turn are followed by its end, with a later revision if it
  completed (`Followed`), and `turn_started` comes once (`StartedOnce`).
- `InStep`: there is a revision h, that of the history taken last, such that what was shown of
  turns since is going to be replaced (`Replaced`), and the browser is going to learn of a newer
  revision (`Learns`) or has asked for it already (`Coming`).  When nothing is under way, none
  of the three can be, and what is shown is the branch.
- `LocalsCounted`: of each text there are no more local messages than prompts which may still
  be confirmed or never will be (`Unconfirming`).

`TranscriptSettles` follows for any number of prompts, texts, fetches and events under way, with
the exceptions the model names: a browser that lost an event (`missed`) until it has read a
history between two turns, and a history that overtook the events of its turn (`overtaken`).
The transcript is filtered by `Filtered(messages, places)`, and its lemmas are about places, not
about a recursive filter, which could not be reasoned about here.  `ComposerHasItsTurn` follows from the
same invariant: while the composer is blocked, a prompt of its own is posted, being answered, or
has its end in the stream; so it is freed, unless an event was lost.

*LiveTurnProofs.*  `InStep` and `ToolsShownOnce` are not inductive: that a block is replaced and
not added needs its id to be known, and that it is the right one needs to know whose the id is.
`LiveInv` adds what the code relies on without saying so.

- `BlocksSound`: no two blocks have one id; an id tells the type of its block and the tool; two
  blocks of tools are of one execution exactly if they have one tool; what is streamed belongs
  to a result that is shown.
- `IdsSound`: the tool of an execution is the id its provider gave, or none, and the id a text is
  appended to is one of this message.
- `AnonymousSound`: while no two tools without an id have overlapped, the number the controller
  made stands for the only one that runs, which has a block, and no number is left when none runs.
- `FollowedSound`: an execution that can be followed has its call from its start, and from its
  end a result of the same status.

A handler is a sequence of elementary steps: the message is begun, a block is put (`PutKeeps`), a
block grows (`DeltaFields`, `GrownSound`).  Each keeps `BlocksSound` and `Mirrors`, that a browser
which missed nothing, after the events so far, shows what is projected so far.  The lemmas
`CallKnown`, `StreamKnown` and `EndKnown` say what a whole handler does for the execution it is
about and that it leaves the blocks of others alone (`OthersCompose`), `StartUnnamed`,
`UnknownKeeps` and `LostKeeps` what it does without an id; the steps follow from these.  The block
a handler finds is the least of one, and the number of a new text block is free because there are
fewer blocks than numbers to choose from (`NewIdIsFree`).  From `LiveInv`: `BrowserInStep` and
`ToolsAreShownOnce`, for any number of turns, messages, deltas, executions and partial results,
and streams that break at any time.

`HistoryShowsTheTurn` is proved over `LiveInv` and speaks of a turn that is over; `ReadInv`
says what holds while it is made.  Each piece of a text is numbered by the tool calls
before it and by its own number, and each tool by its own; a *reading* of a view and a type is
the set of its places with what is marked there (`Reading`).  There are three: of the live message,
of the history so far, and of the message being said, which is not yet an entry.

- `OrderSound`: in each of the three the places are in the order of the numbers
  (`InOrder`), what is said comes after what the history has, and the live message has the marks of
  both, but for the tools that are asked for and did not start, which come after all of it.
- `Spoken`, `ToolsSettled`: the marks are what they are taken for; a tool that ended has its
  own status, and its result next to its call, in the live message and in the history.
- `LastOf`: the block a text goes on in is the last one read of its type.  This is where the
  controller has to be right: `nextTextLikeBlockId` must make a new block in the next message of
  the turn, not go on in one before the tools.
- `CallsListed`, `ResultsSound`: results are appended to the last message, which is the
  assistant's and has the calls of all tools that are still running, and nothing else is taken
  for a result of theirs; else `appendToolResultToMessage` would make a call of its own.

Without the order nothing follows from two views having the same pieces, and without the
numbers there is no order that both could be compared with.  When a turn ends nothing is
asked for or being said, so that the two readings have the same marks; two ordered
readings of the same marks are told alike.  Since an entry of the SDK is appended at the end,
what `NormalizeMessages` makes of the longer sequence is one step of `NormalizeMerging`, for
which unfolding the recursive function once is enough (`NormalizeMore`).  That the function is
there for every length, and agrees with that of a longer sequence, is shown by a least
counterexample among the natural numbers (`UpToExists`, `UpToAgrees`).  The theorems are
`TurnIsRead` and `HistoryReadsAsShown`.

*SessionControllerProofs.*  `SdkInv` relates the initialising operation to
`initPromise`, `result` and what `dispose` has in mind; from it `SdkSessionUnique`,
`DisposalSound` and `ListenerSound`.  `TurnInv` gives `TurnsEnd`.  `BusyEndsWithOperations`:
whoever waits for an initialisation waits for one under way, and the flag of a compaction is
that of an operation, whatever failed before.

*BrowserProofs.*  Of `Approvals`: `LedgerInv` says that answers under way are answers somebody
gave, and that the Map has exactly the unresolved prompts; from it
`NothingForgotten`, `NothingAllowedByDefault` and the action property
`ResolutionsFinal`.  `SeenInv` follows prompts to the screen: what a browser shows, what a reply
or an event under way would show, and what an answer is about, was asked
(`NothingShownUnasked`), and an event that would take a pending prompt off the screen is followed
by one that brings it back.  A new event is appended to each stream, and what it hides is not
pending when it is written; hence `EventsKeepPromptsShown`, for any number of browsers and events
under way: only a reply that was written before the prompt and arrives after it hides it, until
the next snapshot.

Of `SessionSwitch`, which is instantiated as `View` because its names would clash with those of
`Approvals`, so that its assumption is a hypothesis of each theorem: `SwitchInv` says what an
answer or a snapshot finds, however late it comes.  No task has a nonce beyond the last
(`NoncesSound`), hence a new choice leaves no switch current but its own; a switch ends on the
session it was asked for (`TasksSound`), since the handler answers with that one; and
`ChoicePursued` joins the nonce and the intent, the two mechanisms of the code: current switches
are to the choice, and the intent names it, or is none, or an open is under way that will set
it.  `ShowsChoice` is the step of `ViewSettles` that liveness cannot show to be right for every
instance: a snapshot which tells that the choice is in focus shows it with its route, and any
snapshot leaves a draft on the screen.

*PendingSettingsProofs.*  `ChoiceNeverLost` needs to know of the calls under way that a
user's has no deferred level and that a model that was changed was in force
(`CallsSound`), else a call that settles might be the last to know of a choice;
`NewerPendingStands` needs that nothing waits that is newer than the newest choice
(`PendingChosen`).  With the types they are `SettingsInv`.  `LevelIsKept` and
`DeferredSettlesTakes` say what becomes of a deferred choice whose application fails
or succeeds, `NothingIsLost` and `ChooseKeeps` why that is enough.  From them
`ChoicesKept` and `NewerStandsAlways`, for any number of choices and of overlapping
applications.  `IdleAppliesDeferred`: when a session becomes idle everything deferred is taken
out to be applied in the same step, and only a reported failure puts it back.

*PermissionSettingsProofs.*  `LoginInv`: the attempts are ordered by the tail, only the first
has a delay, and what is left of it and the time since the last failure add up to at least
what the failures earned (`DelayEarned`), which is what a tick, a rejection and a reset
after idling keep; hence `DelaysPaid` for any number of clients.  `ShownInv`: a request
that says it is alone is (`AloneHonest`), answers of a page that was left are told nobody
(`LeftBehind`), and an answer that is alone tells what the file says until it is shown
(`ShownSoFar`); hence `DialogTruthful`, and from its types `PolicyAlwaysWhole`.  `LineMovesOn`:
attempts stand in a line by whom they follow, a finite set has a least of them, and that one has
its turn, alone.  `NeverBlockedForGood`: each flag that blocks the dialog has a request under way
that is not cut off and will clear it.

Only model-checked: all liveness (`MutationsSettle`, `CallsSettle`, `PromptsAppear`,
`DialogsClose`, `ComposerFreed`, `DeferredTried`, `BadgeSettles`, `ViewSettles`,
`ViewExists`, `LoginsAnswered`, `DialogFreed`), which with fairness and `ENABLED`
is out of the prover's reach.  Of eight of them the safety half is proved: that in no state is
everybody waiting for somebody else, or an event under way that undoes what was achieved.  These
are `NoMutationLeftOut` (`MutationsSettle`), `BusyEndsWithOperations` (`CallsSettle`),
`EventsKeepPromptsShown` (`PromptsAppear`), `ComposerHasItsTurn` (`ComposerFreed`),
`IdleAppliesDeferred` (`DeferredTried`), `ShowsChoice` (`ViewSettles`), `LineMovesOn`
(`LoginsAnswered`) and `NeverBlockedForGood` (`DialogFreed`); what TLC adds is that the steps
which they leave possible are taken.  What
normalization makes of entries that no turn of the model leaves is neither checked nor proved:
`HistoryReadsAsShown` is about those a turn makes, one after the other.

`LiveIffOwner` also answers a question the code leaves open: state snapshots call
`toLoadedSession` on every registered controller, which throws for one that is being
disposed; since owners are usable, it never is.

## 5. Where code and text disagree

Each of these configurations ends with a counterexample; the second is the run
`controller_orphan`, the others are beside the list of runs.

- `WorkspaceInterrupts.cfg`: a soft delete can cut off a prompt accepted a moment
  before, against the comment that loaded sessions must be idle
  (`api/pi/session-workspace.ts:454`).
- `ControllerOrphan.cfg`: `dispose()` during the creation of the SDK session leaves that
  session undisposed.
- `RuntimeLeaseReuse.cfg`: a lease is known by its client only; after a removal and a
  reload of the session, the release of an older request ends the lease of a newer
  one.
- `ApprovalsDisconnect.cfg`: no disconnect cancels pending prompts, against
  `docs/backend.md:487`.
- `ForkPulledBack.cfg`: a fork is shown and then taken back by the next snapshot, which
  follows the intent of the session before, against `docs/frontend.md:283`.
- `SettingsOvertaken.cfg`: a deferred level that is set after its deferred model was
  awaited replaces a newer one, set at once meanwhile; the test of deferred settings claims
  that the last write wins (`packages/api/test/pi/session-controller-settings.test.ts:63`).

Further statements that the code does not keep are defined at the end of the modules.
To see a counterexample, put the definition in place of the properties of the named
configuration:

| Definition | Where | What happens |
|---|---|---|
| `RacedHistoryNeverRegresses` | `WorkspaceOwnership.cfg`, `Offered = {"open", "revert"}` | the old controller of a reverted session streams on while its replacement is opened, and reports revisions beyond the replacement's |
| `DeleteAnnouncesRemoval` | `WorkspaceOwnership.cfg`, `Offered = {"open", "delete"}` | a delete whose recovery fails too has removed the session without an event |
| `HelloIsFirst` | `Runtime.cfg` with two browsers | a broadcast reaches a browser between its registration and its hello |
| `ControlledSessionsStay` | `Runtime.cfg`, as PROPERTY | a session a client controls without focusing it is evicted |
| `FocusNeverStale`, `KnownClientsConnected` | `Runtime.cfg` | a handler focuses a session, or names a client, that is gone since its await |
| `OthersWait`, `FailedPromptsReported` | `Controller.cfg` | an operation finds the SDK session before its extensions are bound; a prompt whose initialisation fails gets no `turn_failed` |
| `PromptStaysVisible` | `Transcripts.cfg`, `Own = {1, 2}` | a history read before the SDK persisted a prompt arrives after `turn_started` and removes the prompt, which the comment of `startPromptTurn` says never depends on the timing of histories |
| `FailuresReported` | `Transcripts.cfg` | a prompt whose initialisation fails keeps its placeholder |
| `OneAnswerPerTurn` | `Transcripts.cfg` | a history that overtakes the last event of a turn is followed by the live answer, and the turn is shown twice |
| `SettingsShown` | `Settings.cfg` | a model state asked for while the deferred model is being set tells the old one without a badge, so that nobody asks again |

`OneAnswerPerTurn` is the exception `~overtaken` of `TranscriptMatchesBranch`; prompts whose
initialisation failed are the exception of `ComposerFreed`.

Other behaviour met while modelling, which no text of the repository speaks about and the
properties except by name:

- *Settings.*  An older deferred model that failed is put back also after a newer one was
  set directly, and is tried again.
- *Live turn.*  A call without an id is `tool-<index of its part>` in the history and its
  result `tool-<index of the message>`, so that both are shown on their own
  (`api/pi/session-normalization.ts:216`, 360).  Once calls without ids overlap,
  none of the turn is followed any more.  After an abort a persisted call without a result reads as
  completed, and partial output that was streamed is gone.  Texts of one message that alternate with
  thinking are one block live and several in the history.
- *Session switch.*  The answer that creates a session for a draft takes the view from
  whatever was chosen since; a route to the session that is shown begins no switch, so that an
  older answer or intent moves the view away again; two focus requests the server handles in
  the other order leave its focus on the first; an open without details keeps the older intent;
  a snapshot from before a creation clears the intent of the session created; after a delete the
  path may stay on a session while a draft is shown.
- *Permissions.*  Fields stay editable while a load or a save is under way, and its answer
  overwrites the edit.  With a dialog opened again meanwhile, two answers may come in the other
  order, and a later save undoes the newer one (`PermissionsOverlap.cfg` has those steps,
  `current` excepts them).  A save whose page was left may be renamed after a newer one.  An
  answer of the session route from before a login shows the login page again.  A key the server
  does not know is refused, though `docs/frontend.md:195` says unknown fields are preserved.

## 6. Not modelled

- *Required packages.*  They are set up once per start, before sessions are served.  The
  settings file is read, changed and written next to the SDK's own writes of the same file;
  when those happen, the repository does not tell, so that a model would be of a guess.
- *The cached list of session files* (`api/pi/session-workspace.ts:298`).  Two refreshes may
  overlap, and the slower one wins until the next; the listing is an await in every
  mutation of `SessionWorkspace` and would multiply its states for a list that nothing
  there depends on.  `SessionSwitch` takes the list a browser has as given by each answer.
- *Restarts of the server* but in `PermissionSettings`.  Revisions of histories begin again at
  zero after one, while an open page remembers larger ones
  (`api/pi/session-workspace.ts:152`).
- *Widgets and notifications* of extensions are values which only their extension changes.
- *Cryptography, validation and formatting*: tokens, bodies of requests, titles, times, diffs,
  usage statistics, images.
- *Start-up, build scripts and the remaining Vue components* keep no state that several
  actors change.

## 7. Plan

In order:

1. Restarts of the server in `Transcripts`, against the revision a browser remembers; the
   cached list as a module of its own, with mutations reduced to changes of the directory.
2. `SessionSwitch` with the focus of several clients, from `ClientPresence`.
3. `RequiredPackages`, once the SDK's writes are known.
